---------------------------- MODULE FrontEndProofs -----------------------------
(***************************************************************************)
(* Theorems about FrontEnd for every queue size, issue width, program and  *)
(* set of branch targets.                                                  *)
(***************************************************************************)
EXTENDS FrontEnd, NatLemmas, SequenceTheorems, FiniteSetTheorems, TLAPS

N == NUM_PCS
S == INST_QUEUE_SIZE
W == ISSUE_WIDTH

Slots == 0 .. S - 1
Cursor == -1 .. S - 1

\* The sizes the program and config.h give.
LEMMA SizesArePositive == N \in Nat \ {0} /\ S \in Nat \ {0} /\ W \in Nat \ {0} /\ W <= S
  BY FrontEndAssumption, InstQueueAssumption DEF N, S, W

-----------------------------------------------------------------------------

(* Program counters: where the path goes on behind a word 0x0. *)

\* The address behind an address, at the end of the memory its start.
LEMMA AfterIsPc ==
    ASSUME NEW pc \in Pcs
    PROVE  after(pc) \in Pcs /\ after(pc) = IF pc + 1 = N THEN 0 ELSE pc + 1
<1>1. pc \in 0 .. N - 1 /\ pc + 1 \in 0 .. 2 * N - 1
  BY SizesArePositive DEF Pcs, N
<1>2. (pc + 1) % N = IF pc + 1 < N THEN pc + 1 ELSE (pc + 1) - N
  BY <1>1, SizesArePositive, WrapsOnce
<1> QED
  BY <1>1, <1>2, SizesArePositive DEF after, Pcs, N

Distance(pc, c) == IF pc <= c THEN c - pc ELSE (c - pc) + N

\* How far an address is ahead, without the remainder.
LEMMA DistanceIsModular ==
    ASSUME NEW pc \in Pcs, NEW c \in Pcs
    PROVE  ((c - pc) + N) % N = Distance(pc, c) /\ Distance(pc, c) \in 0 .. N - 1
<1>1. pc \in 0 .. N - 1 /\ c \in 0 .. N - 1 /\ (c - pc) + N \in 0 .. 2 * N - 1
  BY SizesArePositive DEF Pcs, N
<1>2. ((c - pc) + N) % N = IF (c - pc) + N < N THEN (c - pc) + N ELSE ((c - pc) + N) - N
  BY <1>1, SizesArePositive, WrapsOnce
<1> QED
  BY <1>1, <1>2, SizesArePositive DEF Distance

\* The next instruction of the code is the nearest ahead.
LEMMA OnwardIsNearest ==
    ASSUME NEW pc \in Pcs
    PROVE  /\ onward(pc) \in Code
           /\ \A d \in Code : Distance(pc, onward(pc)) <= Distance(pc, d)
<1>1. Code \subseteq Pcs /\ Code # {}
  BY FrontEndAssumption DEF Pcs
<1> DEFINE distances == {Distance(pc, c) : c \in Code}
<1>2. distances \in SUBSET Nat /\ distances # {}
  BY <1>1, DistanceIsModular, SizesArePositive
<1>3. PICK least \in distances : \A other \in distances : least <= other
  BY <1>2, LeastExists
<1>4. \E c \in Code : \A d \in Code : Distance(pc, c) <= Distance(pc, d)
  BY <1>3
<1>5. \A c \in Code : ((c - pc) + NUM_PCS) % NUM_PCS = Distance(pc, c)
  BY <1>1, DistanceIsModular DEF N
<1>6. onward(pc) = CHOOSE c \in Code : \A d \in Code :
         ((c - pc) + NUM_PCS) % NUM_PCS <= ((d - pc) + NUM_PCS) % NUM_PCS
  BY DEF onward
<1>7. \E c \in Code : \A d \in Code :
         ((c - pc) + NUM_PCS) % NUM_PCS <= ((d - pc) + NUM_PCS) % NUM_PCS
  BY <1>4, <1>5
<1>8. /\ onward(pc) \in Code
      /\ \A d \in Code : ((onward(pc) - pc) + NUM_PCS) % NUM_PCS <= ((d - pc) + NUM_PCS) % NUM_PCS
  BY <1>6, <1>7, Zenon
<1> QED
  BY <1>5, <1>8

\* A word that is not 0x0 is where it is looked for.
LEMMA OnwardOfCode ==
    ASSUME NEW pc \in Code
    PROVE  onward(pc) = pc
<1>1. Code \subseteq 0 .. N - 1 /\ pc \in Pcs /\ pc \in 0 .. N - 1
  BY FrontEndAssumption DEF Pcs, N
<1> DEFINE c == onward(pc)
<1>2. c \in Code /\ Distance(pc, c) <= Distance(pc, pc)
  BY <1>1, OnwardIsNearest
<1> HIDE DEF c
<1>3. c = pc
  BY <1>1, <1>2, SizesArePositive DEF Distance
<1> QED
  BY <1>3 DEF c

\* A word 0x0 is passed over.
LEMMA OnwardOfZero ==
    ASSUME NEW pc \in Pcs, pc \notin Code
    PROVE  onward(pc) = onward(after(pc))
<1>1. Code \subseteq 0 .. N - 1 /\ pc \in 0 .. N - 1
  BY FrontEndAssumption DEF Pcs, N
<1>2. after(pc) \in 0 .. N - 1 /\ after(pc) = IF pc + 1 = N THEN 0 ELSE pc + 1
  BY AfterIsPc DEF Pcs, N
<1>3. /\ onward(pc) \in Code /\ \A d \in Code : Distance(pc, onward(pc)) <= Distance(pc, d)
      /\ onward(after(pc)) \in Code
      /\ \A d \in Code : Distance(after(pc), onward(after(pc))) <= Distance(after(pc), d)
  BY <1>1, <1>2, OnwardIsNearest DEF Pcs, N
<1>4. \A d \in Code : Distance(pc, d) = Distance(after(pc), d) + 1
  BY <1>1, <1>2, SizesArePositive DEF Distance
<1> DEFINE a == onward(pc)
           b == onward(after(pc))
<1>5. /\ a \in Code /\ b \in Code
      /\ Distance(after(pc), a) + 1 <= Distance(after(pc), b) + 1
      /\ Distance(after(pc), b) <= Distance(after(pc), a)
  BY <1>3, <1>4
<1> HIDE DEF a, b
<1>6. a = b
  BY <1>1, <1>2, <1>5, SizesArePositive DEF Distance
<1> QED
  BY <1>6 DEF a, b

-----------------------------------------------------------------------------

(* The latches, one after the other. *)

\* The full latches from one on.
LEMMA LatchedFromNext ==
    ASSUME NEW latches, NEW first \in 1 .. W
    PROVE  /\ \A i \in Latched(latches, first) : i \in first .. W /\ latches[i].inst
           /\ latches[first].inst => first \in Latched(latches, first)
           /\ ~latches[first].inst => Latched(latches, first) = Latched(latches, first + 1)
           /\ Latched(latches, W + 1) = {}
  BY SizesArePositive DEF Latched, W

\* The path goes on at the first full latch.
LEMMA LeadOfFull ==
    ASSUME NEW latches, NEW first \in 1 .. W, NEW rest, latches[first].inst
    PROVE  Lead(latches, first, rest) = latches[first].inst_pc
<1> DEFINE held == Latched(latches, first)
           least == CHOOSE i \in held : \A j \in held : i <= j
<1>1. first \in held /\ \A j \in held : j \in first .. W
  BY LatchedFromNext
<1> HIDE DEF held
<1>2. first \in held /\ \A j \in held : first <= j
  BY <1>1, SizesArePositive
<1>3. least \in held /\ \A j \in held : least <= j
  BY <1>2, Zenon
<1> HIDE DEF least
<1>4. least = first
  BY <1>1, <1>2, <1>3, SizesArePositive
<1>5. Lead(latches, first, rest) = latches[least].inst_pc
  BY <1>1 DEF Lead, held, least
<1> QED
  BY <1>4, <1>5

\* An empty latch is passed over.
LEMMA LeadOfEmpty ==
    ASSUME NEW latches, NEW first \in 1 .. W, NEW rest, ~latches[first].inst
    PROVE  Lead(latches, first, rest) = Lead(latches, first + 1, rest)
<1>1. Latched(latches, first) = Latched(latches, first + 1)
  BY LatchedFromNext
<1> QED
  BY <1>1 DEF Lead

\* With no full latch the path goes on behind the latches.
LEMMA LeadOfNone ==
    ASSUME NEW latches, NEW first \in 1 .. W + 1, NEW rest,
           \A i \in first .. W : ~latches[i].inst
    PROVE  /\ Latched(latches, first) = {}
           /\ Lead(latches, first, rest) = rest
<1>1. Latched(latches, first) = {}
  BY DEF Latched, W
<1> QED
  BY <1>1 DEF Lead

\* How many latches from one on hold an instruction.
Held(latches, first) == Cardinality(Latched(latches, first))

LEMMA HeldIsBounded ==
    ASSUME NEW latches
    PROVE  /\ Held(latches, 1) \in 0 .. W
           /\ \A first \in 1 .. W + 1 : IsFiniteSet(Latched(latches, first))
<1>1. IsFiniteSet(1 .. W) /\ Cardinality(1 .. W) = W
  BY SizesArePositive, FS_Interval
<1>2. \A first \in 1 .. W + 1 : Latched(latches, first) \subseteq 1 .. W
  BY SizesArePositive DEF Latched, W
<1>3. \A first \in 1 .. W + 1 : IsFiniteSet(Latched(latches, first))
  BY <1>1, <1>2, FS_Subset
<1>4. 1 \in 1 .. W + 1
  BY SizesArePositive
<1>5. Held(latches, 1) <= W
  BY <1>1, <1>2, <1>4, FS_Subset DEF Held
<1>6. Held(latches, 1) \in Nat
  BY <1>3, <1>4, FS_CardinalityType DEF Held
<1> QED
  BY <1>3, <1>5, <1>6, SizesArePositive

\* A latch counts when it is full.
LEMMA HeldFromNext ==
    ASSUME NEW latches, NEW first \in 1 .. W
    PROVE  /\ Held(latches, first) \in Nat /\ Held(latches, first + 1) \in Nat
           /\ latches[first].inst => Held(latches, first) = Held(latches, first + 1) + 1
           /\ ~latches[first].inst => Held(latches, first) = Held(latches, first + 1)
           /\ Held(latches, W + 1) = 0
<1>1. first + 1 \in 1 .. W + 1 /\ first \in 1 .. W + 1
  BY SizesArePositive
<1>2. IsFiniteSet(Latched(latches, first)) /\ IsFiniteSet(Latched(latches, first + 1))
  BY <1>1, HeldIsBounded
<1>3. Held(latches, first) \in Nat /\ Held(latches, first + 1) \in Nat
  BY <1>2, FS_CardinalityType DEF Held
<1>4. ASSUME latches[first].inst
      PROVE  Held(latches, first) = Held(latches, first + 1) + 1
  <2>1. Latched(latches, first) = Latched(latches, first + 1) \cup {first}
    BY <1>4, SizesArePositive DEF Latched, W
  <2>2. first \notin Latched(latches, first + 1)
    BY SizesArePositive DEF Latched
  <2> QED
    BY <1>2, <2>1, <2>2, FS_AddElement DEF Held
<1>5. ~latches[first].inst => Held(latches, first) = Held(latches, first + 1)
  BY LatchedFromNext DEF Held
<1>6. Held(latches, W + 1) = 0
  BY LatchedFromNext, FS_EmptySet DEF Held
<1> QED
  BY <1>3, <1>4, <1>5, <1>6

-----------------------------------------------------------------------------

(* What fetch_step writes is a path from the pc it fetches at. *)

\* The latches up to the first predicted elsewhere hold consecutive words.
FetchedPath(fetched, last, reg_pc) ==
    /\ last \in 1 .. W
    /\ \A i \in 1 .. W : fetched[i].inst_pc \in Pcs /\ fetched[i].npc_pred \in Pcs
    /\ fetched[1].inst_pc = reg_pc
    /\ \A i \in 1 .. last : fetched[i].inst <=> fetched[i].inst_pc \in Code
    /\ \A i \in 1 .. last :
          fetched[i].inst_pc \notin Code => fetched[i].npc_pred = after(fetched[i].inst_pc)
    /\ \A i \in 1 .. last : i < last =>
          /\ fetched[i].npc_pred = after(fetched[i].inst_pc)
          /\ fetched[i + 1].inst_pc = after(fetched[i].inst_pc)
    /\ \A i \in last + 1 .. W : ~fetched[i].inst
    /\ fetched[W].npc_pred = fetched[last].npc_pred

\* What fetch puts into the latches is a piece of the predicted path.
LEMMA FetchedIsPath ==
    ASSUME NEW reg_pc \in Pcs, NEW btb \in Predictions
    PROVE  /\ Fetched(reg_pc, btb) \in Latches
           /\ \E last : FetchedPath(Fetched(reg_pc, btb), last, reg_pc)
<1> DEFINE pc(i) == ((reg_pc + i) - 1) % NUM_PCS
           taken(i) == btb[pc(i)] # after(pc(i))
           stopped(i) == \E k \in 1 .. i - 1 : taken(k)
           first == CHOOSE k \in 1 .. ISSUE_WIDTH : taken(k) /\ ~stopped(k)
           fetched == Fetched(reg_pc, btb)
<1>1. /\ btb \in [Pcs -> Pcs]
      /\ \A p \in Pcs : p \notin Code => btb[p] = after(p)
  BY DEF Predictions
<1>2. fetched = [i \in 1 .. ISSUE_WIDTH |->
            [inst |-> ~stopped(i) /\ pc(i) \in Code, inst_pc |-> pc(i),
             npc_pred |-> IF stopped(i) THEN btb[pc(first)] ELSE btb[pc(i)]]]
  BY Zenon DEF Fetched
<1>3. /\ \A i \in 1 .. W : pc(i) \in Pcs
      /\ pc(1) = reg_pc
      /\ \A i \in 1 .. W : pc(i + 1) = after(pc(i))
  <2>1. ASSUME NEW i \in 1 .. W PROVE pc(i) \in Pcs /\ pc(i + 1) = after(pc(i))
    <3> DEFINE x == (reg_pc + i) - 1
    <3>1. x \in Nat /\ (reg_pc + (i + 1)) - 1 = x + 1
      BY SizesArePositive DEF Pcs, N
    <3>2. x % N \in 0 .. N - 1 /\ (x + 1) % N = IF (x % N) + 1 = N THEN 0 ELSE (x % N) + 1
      BY <3>1, SizesArePositive, WrapsAgain
    <3> HIDE DEF x
    <3>3. x % N \in Pcs
      BY <3>2 DEF Pcs, N
    <3>4. (x + 1) % N = after(x % N)
      BY <3>2, <3>3, AfterIsPc
    <3> QED
      BY <3>1, <3>3, <3>4 DEF x, N
  <2>2. pc(1) = reg_pc
    <3>1. (reg_pc + 1) - 1 = reg_pc /\ reg_pc \in 0 .. N - 1
      BY SizesArePositive DEF Pcs, N
    <3> QED
      BY <3>1, SizesArePositive DEF N
  <2> QED
    BY <2>1, <2>2
<1> HIDE DEF pc
<1>4. CASE \E i \in 1 .. W : taken(i)
  <2> DEFINE all == {i \in 1 .. W : taken(i)}
  <2>1. PICK last \in all : \A i \in all : last <= i
    <3>1. all \in SUBSET Nat /\ all # {}
      BY <1>4, SizesArePositive
    <3> QED
      BY <3>1, LeastExists
  <2>2. last \in 1 .. W /\ taken(last) /\ \A i \in 1 .. W : taken(i) => last <= i
    BY <2>1
  <2> HIDE DEF all, taken
  <2>3. \A i \in 1 .. W : stopped(i) <=> last < i
    BY <2>2, SizesArePositive
  <2>4. first = last
    <3>1. taken(last) /\ ~stopped(last)
      BY <2>2, <2>3
    <3>2. \A k \in 1 .. W : taken(k) /\ ~stopped(k) => k = last
      BY <2>2, <2>3, SizesArePositive
    <3> HIDE DEF stopped
    <3>3. first \in 1 .. W /\ taken(first) /\ ~stopped(first)
      BY <2>2, <3>1, Zenon DEF W
    <3> QED
      BY <3>2, <3>3
  <2> HIDE DEF stopped, first
  <2>5. \A i \in 1 .. W :
          /\ fetched[i].inst => i <= last /\ pc(i) \in Code
          /\ i <= last /\ pc(i) \in Code => fetched[i].inst
          /\ fetched[i].inst_pc = pc(i)
          /\ fetched[i].npc_pred = IF last < i THEN btb[pc(last)] ELSE btb[pc(i)]
    <3>1. \A i \in 1 .. W :
            /\ fetched[i].inst = (i <= last /\ pc(i) \in Code)
            /\ fetched[i].inst_pc = pc(i)
            /\ fetched[i].npc_pred = IF last < i THEN btb[pc(last)] ELSE btb[pc(i)]
      BY <1>2, <2>2, <2>3, <2>4, SizesArePositive DEF W
    <3> HIDE DEF fetched
    <3> QED
      BY <3>1, Zenon
  <2>6. \A i \in 1 .. W : i < last => btb[pc(i)] = after(pc(i))
    BY <2>2, SizesArePositive DEF taken
  <2>7. fetched \in Latches
    <3>1. \A i \in 1 .. W : pc(i) \in Pcs /\ btb[pc(i)] \in Pcs
      BY <1>1, <1>3
    <3> QED
      BY <1>2, <2>2, <2>4, <3>1 DEF Latches, W
  <2> HIDE DEF fetched
  <2>8. FetchedPath(fetched, last, reg_pc)
    <3>1. \A i \in 1 .. W : fetched[i].inst_pc \in Pcs /\ fetched[i].npc_pred \in Pcs
      BY <2>7 DEF Latches, W
    <3> HIDE DEF taken
    <3>2. /\ fetched[1].inst_pc = reg_pc
          /\ fetched[W].npc_pred = btb[pc(last)] /\ fetched[last].npc_pred = btb[pc(last)]
      BY <1>3, <2>2, <2>5, SizesArePositive
    <3>3. \A i \in 1 .. last : /\ fetched[i].inst <=> pc(i) \in Code
                               /\ fetched[i].inst_pc = pc(i)
                               /\ fetched[i].npc_pred = btb[pc(i)]
      BY <2>2, <2>5, SizesArePositive
    <3>4. \A i \in 1 .. last : pc(i) \notin Code => btb[pc(i)] = after(pc(i))
      BY <1>1, <1>3, <2>2, SizesArePositive
    <3>5. \A i \in 1 .. last : i < last =>
              btb[pc(i)] = after(pc(i)) /\ fetched[i + 1].inst_pc = after(pc(i))
      BY <1>3, <2>2, <2>6, <3>3, SizesArePositive
    <3>6. \A i \in last + 1 .. W : ~fetched[i].inst
      BY <2>2, <2>5, SizesArePositive
    <3> QED
      BY <2>2, <3>1, <3>2, <3>3, <3>4, <3>5, <3>6 DEF FetchedPath
  <2> QED
    BY <2>7, <2>8 DEF fetched
<1>5. CASE ~\E i \in 1 .. W : taken(i)
  <2>1. \A i \in 1 .. W : ~stopped(i) /\ btb[pc(i)] = after(pc(i))
    BY <1>5, SizesArePositive
  <2> HIDE DEF stopped, taken, first
  <2>2. \A i \in 1 .. W : pc(i) \in Pcs /\ btb[pc(i)] \in Pcs
    BY <1>1, <1>3
  <2>3. \A i \in 1 .. W :
          /\ fetched[i].inst => pc(i) \in Code
          /\ pc(i) \in Code => fetched[i].inst
          /\ fetched[i].inst_pc = pc(i)
          /\ fetched[i].npc_pred = after(pc(i))
    <3>1. \A i \in 1 .. W :
            /\ fetched[i].inst = (pc(i) \in Code)
            /\ fetched[i].inst_pc = pc(i)
            /\ fetched[i].npc_pred = after(pc(i))
      BY <1>2, <2>1 DEF W
    <3> HIDE DEF fetched
    <3> QED
      BY <3>1, Zenon
  <2>4. fetched \in Latches
    BY <1>2, <2>1, <2>2 DEF Latches, W
  <2> HIDE DEF fetched
  <2>5. FetchedPath(fetched, W, reg_pc)
    <3>1. \A i \in 1 .. W : fetched[i].inst_pc \in Pcs /\ fetched[i].npc_pred \in Pcs
      BY <2>4 DEF Latches, W
    <3>2. fetched[1].inst_pc = reg_pc
      BY <1>3, <2>3, SizesArePositive
    <3>3. \A i \in 1 .. W : i < W => fetched[i + 1].inst_pc = after(pc(i))
      BY <1>3, <2>3, SizesArePositive
    <3> QED
      BY <2>3, <3>1, <3>2, <3>3, SizesArePositive DEF FetchedPath
  <2> QED
    BY <2>4, <2>5 DEF fetched
<1> QED
  BY <1>4, <1>5

\* A fetched batch leads on from the pc of the fetch to the pc of the next one.
LEMMA FetchedLeadsOn ==
    ASSUME NEW fetched, NEW last, NEW reg_pc, FetchedPath(fetched, last, reg_pc)
    PROVE  LET rest == onward(fetched[W].npc_pred)
           IN  /\ Lead(fetched, 1, rest) = onward(reg_pc)
               /\ LeadsOn(fetched, 1, rest)
<1> DEFINE rest == onward(fetched[W].npc_pred)
           wrong == {i \in 1 .. last : Lead(fetched, i, rest) # onward(fetched[i].inst_pc)}
<1> USE SizesArePositive
<1>1. last \in 1 .. W
  BY DEF FetchedPath
<1>2. \A i \in last + 1 .. W + 1 : Lead(fetched, i, rest) = rest
  <2> TAKE i \in last + 1 .. W + 1
  <2>1. i \in 1 .. W + 1 /\ \A j \in i .. W : ~fetched[j].inst
    BY <1>1 DEF FetchedPath
  <2> QED
    BY <2>1, LeadOfNone
<1>3. rest = onward(fetched[last].npc_pred)
  BY DEF FetchedPath
<1> HIDE DEF rest
<1>4. ASSUME NEW i \in 1 .. last, i < last => i + 1 \notin wrong
      PROVE  i \notin wrong
  <2>1. i \in 1 .. W /\ fetched[i].inst_pc \in Pcs
    BY <1>1 DEF FetchedPath
  <2>2. CASE fetched[i].inst
    <3>1. fetched[i].inst_pc \in Code
      BY <2>2 DEF FetchedPath
    <3> QED
      BY <2>1, <2>2, <3>1, LeadOfFull, OnwardOfCode
  <2>3. CASE ~fetched[i].inst
    <3>1. /\ fetched[i].inst_pc \notin Code
          /\ fetched[i].npc_pred = after(fetched[i].inst_pc)
      BY <2>3 DEF FetchedPath
    <3>2. onward(fetched[i].inst_pc) = onward(fetched[i].npc_pred)
      BY <2>1, <3>1, OnwardOfZero
    <3>3. Lead(fetched, i, rest) = Lead(fetched, i + 1, rest)
      BY <2>1, <2>3, LeadOfEmpty
    <3>4. CASE i = last
      <4>1. Lead(fetched, i + 1, rest) = rest
        BY <1>1, <1>2, <3>4
      <4> QED
        BY <1>3, <3>2, <3>3, <3>4, <4>1
    <3>5. CASE i < last
      <4>1. fetched[i + 1].inst_pc = fetched[i].npc_pred
        BY <3>1, <3>5 DEF FetchedPath
      <4>2. Lead(fetched, i + 1, rest) = onward(fetched[i + 1].inst_pc)
        BY <1>1, <1>4, <3>5
      <4> QED
        BY <3>2, <3>3, <4>1, <4>2
    <3> QED
      BY <1>1, <3>4, <3>5
  <2> QED
    BY <2>2, <2>3
<1>5. wrong = {}
  <2> SUFFICES ASSUME wrong # {} PROVE FALSE
    OBVIOUS
  <2> DEFINE behind == {last - i : i \in wrong}
  <2>1. behind \in SUBSET Nat /\ behind # {}
    BY <1>1
  <2>2. PICK least \in behind : \A other \in behind : least <= other
    BY <2>1, LeastExists
  <2>3. PICK i \in wrong : \A j \in wrong : j <= i
    <3>1. PICK i \in wrong : least = last - i
      BY <2>2
    <3>2. ASSUME NEW j \in wrong PROVE j <= i
      <4>1. last - j \in behind
        OBVIOUS
      <4>2. i \in Int /\ j \in Int /\ last \in Int
        BY <1>1
      <4>3. last - i <= last - j
        BY <2>2, <3>1, <4>1
      <4> QED
        BY <4>2, <4>3
    <3> QED
      BY <3>2
  <2>4. i < last => i + 1 \notin wrong
    BY <1>1, <2>3
  <2> QED
    BY <1>4, <2>3, <2>4
<1>6. \A i \in 1 .. last : Lead(fetched, i, rest) = onward(fetched[i].inst_pc)
  BY <1>5
<1>7. Lead(fetched, 1, rest) = onward(reg_pc)
  BY <1>1, <1>6 DEF FetchedPath
<1>8. ASSUME NEW i \in Latched(fetched, 1)
      PROVE  onward(fetched[i].npc_pred) = Lead(fetched, i + 1, rest)
  <2>1. i \in 1 .. W /\ fetched[i].inst
    BY DEF Latched, W
  <2>2. i \in 1 .. last
    BY <1>1, <2>1 DEF FetchedPath
  <2>3. CASE i = last
    <3>1. Lead(fetched, i + 1, rest) = rest
      BY <1>1, <1>2, <2>3
    <3> QED
      BY <1>3, <2>3, <3>1
  <2>4. CASE i < last
    <3>1. fetched[i + 1].inst_pc = fetched[i].npc_pred
      BY <2>2, <2>4 DEF FetchedPath
    <3>2. Lead(fetched, i + 1, rest) = onward(fetched[i + 1].inst_pc)
      BY <1>1, <1>6, <2>2, <2>4
    <3> QED
      BY <3>1, <3>2
  <2> QED
    BY <1>1, <2>2, <2>3, <2>4
<1> QED
  BY <1>7, <1>8 DEF LeadsOn, rest

-----------------------------------------------------------------------------

(* What the operators of InstQueue do to the fields of the struct. *)

IqState == InstQueueState(Insts)

\* The parts of an instruction queue.
LEMMA IqTypes ==
    ASSUME NEW q \in IqState
    PROVE  /\ q.queue_current \in [Slots -> Insts] /\ q.queue_next \in [Slots -> Insts]
           /\ q.front_current \in Cursor /\ q.front_next \in Cursor
           /\ q.rear_current \in Cursor /\ q.rear_next \in Cursor
  BY DEF IqState, InstQueueState, Slots, Cursor, S

\* inst_queue_init builds an empty queue.
LEMMA InitIq ==
    LET q == inst_queue_init(nothing)
    IN  /\ q \in IqState
        /\ q.queue_current = q.queue_next
        /\ q.front_current = -1 /\ q.front_next = -1
        /\ q.rear_current = -1 /\ q.rear_next = -1
<1>1. nothing \in Insts
  BY FrontEndAssumption DEF nothing, Insts, Pcs
<1>2. -1 \in -1 .. S - 1
  BY SizesArePositive
<1> QED
  BY <1>1, <1>2 DEF inst_queue_init, IqState, InstQueueState, S

\* inst_queue_enqueue writes the slot behind the rear of the next copy.
LEMMA EnqueueIq ==
    ASSUME NEW q \in IqState, NEW inst \in Insts
    PROVE  LET rear == IF q.rear_next + 1 = S THEN 0 ELSE q.rear_next + 1
               new == inst_queue_enqueue(q, inst)
           IN  /\ new \in IqState
               /\ rear \in Slots
               /\ new.queue_current = q.queue_current
               /\ new.front_current = q.front_current
               /\ new.rear_current = q.rear_current
               /\ new.front_next = IF q.front_next = -1 THEN 0 ELSE q.front_next
               /\ new.rear_next = rear
               /\ new.queue_next[rear] = inst
               /\ \A i \in Slots : i # rear => new.queue_next[i] = q.queue_next[i]
<1> DEFINE rear == (q.rear_next + 1) % S
           front == IF q.front_next = -1 THEN 0 ELSE q.front_next
           new == inst_queue_enqueue(q, inst)
<1>1. /\ rear \in Slots
      /\ rear = IF q.rear_next + 1 = S THEN 0 ELSE q.rear_next + 1
  <2>1. q.rear_next + 1 \in 0 .. 2 * S - 1 /\ q.rear_next + 1 <= S
    BY IqTypes, SizesArePositive DEF Cursor
  <2>2. rear = IF q.rear_next + 1 < S THEN q.rear_next + 1 ELSE (q.rear_next + 1) - S
    BY <2>1, SizesArePositive, WrapsOnce
  <2> QED
    BY <2>1, <2>2, SizesArePositive DEF Slots
<1>2. new = [q EXCEPT !.front_next = front, !.rear_next = rear, !.queue_next[rear] = inst]
  BY DEF inst_queue_enqueue, S
<1>3. front \in Cursor /\ rear \in Cursor
  BY <1>1, IqTypes, SizesArePositive DEF Cursor, Slots
<1> HIDE DEF rear, front, new
<1>4. [q.queue_next EXCEPT ![rear] = inst] \in [Slots -> Insts]
  BY IqTypes
<1>5. /\ new \in IqState
      /\ new.queue_current = q.queue_current
      /\ new.front_current = q.front_current
      /\ new.rear_current = q.rear_current
      /\ new.front_next = front /\ new.rear_next = rear
      /\ new.queue_next = [q.queue_next EXCEPT ![rear] = inst]
  BY <1>2, <1>3, <1>4 DEF IqState, InstQueueState, Slots, Cursor, S
<1>6. /\ new.queue_next[rear] = inst
      /\ \A i \in Slots : i # rear => new.queue_next[i] = q.queue_next[i]
  BY <1>1, <1>5, IqTypes
<1> QED
  BY <1>1, <1>5, <1>6 DEF front, new

\* inst_queue_dequeue moves the front of the next copy.
LEMMA DequeueIq ==
    ASSUME NEW q \in IqState
    PROVE  LET new == inst_queue_dequeue(q)
           IN  /\ new \in IqState
               /\ new.queue_current = q.queue_current
               /\ new.queue_next = q.queue_next
               /\ new.front_current = q.front_current
               /\ new.rear_current = q.rear_current
               /\ new.front_next = IF q.front_next = q.rear_next THEN -1
                                   ELSE IF q.front_next + 1 = S THEN 0 ELSE q.front_next + 1
               /\ new.rear_next = IF q.front_next = q.rear_next THEN -1 ELSE q.rear_next
<1> DEFINE front == IF q.front_next = q.rear_next THEN -1 ELSE (q.front_next + 1) % S
           rear == IF q.front_next = q.rear_next THEN -1 ELSE q.rear_next
           new == inst_queue_dequeue(q)
<1>1. /\ front \in Cursor /\ rear \in Cursor
      /\ front = IF q.front_next = q.rear_next THEN -1
                 ELSE IF q.front_next + 1 = S THEN 0 ELSE q.front_next + 1
  <2>1. q.front_next + 1 \in 0 .. 2 * S - 1 /\ q.front_next + 1 <= S
    BY IqTypes, SizesArePositive DEF Cursor
  <2>2. (q.front_next + 1) % S =
            IF q.front_next + 1 < S THEN q.front_next + 1 ELSE (q.front_next + 1) - S
    BY <2>1, SizesArePositive, WrapsOnce
  <2> QED
    BY <2>1, <2>2, IqTypes, SizesArePositive DEF Cursor
<1>2. new = [q EXCEPT !.front_next = front, !.rear_next = rear]
  BY DEF inst_queue_dequeue, S
<1> HIDE DEF front, rear, new
<1>3. /\ new \in IqState
      /\ new.queue_current = q.queue_current
      /\ new.queue_next = q.queue_next
      /\ new.front_current = q.front_current
      /\ new.rear_current = q.rear_current
      /\ new.front_next = front /\ new.rear_next = rear
  BY <1>1, <1>2 DEF IqState, InstQueueState, Cursor, S
<1> QED
  BY <1>1, <1>3 DEF rear, new

\* inst_queue_clear empties the next window.
LEMMA ClearIq ==
    ASSUME NEW q \in IqState
    PROVE  LET new == inst_queue_clear(q)
           IN  new \in IqState /\ new.front_next = -1 /\ new.rear_next = -1
<1>1. -1 \in -1 .. S - 1
  BY SizesArePositive
<1> QED
  BY <1>1 DEF inst_queue_clear, IqState, InstQueueState, S

\* inst_queue_update_current makes the current copy equal to the next.
LEMMA UpdateIq ==
    ASSUME NEW q \in IqState
    PROVE  LET new == inst_queue_update_current(q)
           IN  /\ new \in IqState
               /\ new.queue_current = q.queue_next /\ new.queue_next = q.queue_next
               /\ new.front_current = q.front_next /\ new.front_next = q.front_next
               /\ new.rear_current = q.rear_next /\ new.rear_next = q.rear_next
  BY DEF inst_queue_update_current, IqState, InstQueueState

-----------------------------------------------------------------------------

(* The arithmetic of the two windows of the queue. *)

InWindow(front, rear, i) ==
    /\ front # -1
    /\ IF front <= rear THEN front <= i /\ i <= rear ELSE i <= rear \/ front <= i

AfterLap(x) == IF x < S THEN x ELSE x - S

\* The window being built is the one being read, plus added, less removed instructions.
InStep(fc, rc, fn, rn, added, removed) ==
    LET held == QueueLength(fc, rc)
        built == QueueLength(fn, rn)
    IN  /\ fc = -1 <=> rc = -1
        /\ fn = -1 <=> rn = -1
        /\ removed <= held
        /\ held + added <= S
        /\ built = (held + added) - removed
        /\ built > 0 => fn = IF held = 0 THEN 0 ELSE AfterLap(fc + removed)

\* inst_queue_free_slots promises room for a whole width of latches.
LEMMA FreeSlots ==
    ASSUME NEW q \in IqState, q.front_current = -1 <=> q.rear_current = -1,
           inst_queue_free_slots(q)
    PROVE  /\ QueueLength(q.front_current, q.rear_current) \in Nat
           /\ QueueLength(q.front_current, q.rear_current) + W <= S
<1>1. /\ q.front_current \in Cursor /\ q.rear_current \in Cursor
      /\ \/ q.front_current = -1 /\ q.rear_current = -1
         \/ LET free == (q.front_current - q.rear_current) - 1
            IN  (IF free < 0 THEN free + S ELSE free) >= W
  BY IqTypes DEF inst_queue_free_slots, S, W
<1>2. ASSUME NEW f \in Cursor, NEW g \in Cursor, f = -1 <=> g = -1,
             \/ f = -1 /\ g = -1
             \/ (IF (f - g) - 1 < 0 THEN ((f - g) - 1) + S ELSE (f - g) - 1) >= W
      PROVE  QueueLength(f, g) \in Nat /\ QueueLength(f, g) + W <= S
  BY <1>2, SizesArePositive DEF QueueLength, S, Cursor
<1> QED
  BY <1>1, <1>2, Zenon

\* While the latches fit, an enqueue spares the current window.
LEMMA EnqueueWindow ==
    ASSUME NEW fc \in Cursor, NEW rc \in Cursor, NEW fn \in Cursor, NEW rn \in Cursor,
           NEW added \in Nat,
           InStep(fc, rc, fn, rn, added, 0),
           QueueLength(fc, rc) + added < S
    PROVE  LET front == IF fn = -1 THEN 0 ELSE fn
               rear == IF rn + 1 = S THEN 0 ELSE rn + 1
           IN  /\ InStep(fc, rc, front, rear, added + 1, 0)
               /\ ~InWindow(fc, rc, rear)
               /\ QueueLength(fn, rn) < S
  BY SizesArePositive DEF InStep, QueueLength, InWindow, AfterLap, Cursor, S

\* A dequeue takes the front, which is the slot read in the current copy.
LEMMA DequeueWindow ==
    ASSUME NEW fc \in Cursor, NEW rc \in Cursor, NEW fn \in Cursor, NEW rn \in Cursor,
           NEW added \in Nat, NEW removed \in Nat,
           InStep(fc, rc, fn, rn, added, removed),
           removed < QueueLength(fc, rc)
    PROVE  LET front == IF fn = rn THEN -1 ELSE IF fn + 1 = S THEN 0 ELSE fn + 1
               rear == IF fn = rn THEN -1 ELSE rn
           IN  /\ InStep(fc, rc, front, rear, added, removed + 1)
               /\ fn \in Slots /\ rn \in Slots
               /\ fn = AfterLap(fc + removed)
               /\ InWindow(fc, rc, fn)
  BY SizesArePositive DEF InStep, QueueLength, InWindow, AfterLap, Cursor, Slots, S

\* At the end of a cycle the two windows are one.
LEMMA UpdateWindow ==
    ASSUME NEW fn \in Cursor, NEW rn \in Cursor, fn = -1 <=> rn = -1
    PROVE  InStep(fn, rn, fn, rn, 0, 0)
  BY SizesArePositive DEF InStep, QueueLength, AfterLap, Cursor, S

SlotAt(front, k) == IF (front + k) - 1 < S THEN (front + k) - 1 ELSE ((front + k) - 1) - S

\* The members of a window are slots, in the order the code steps through them.
LEMMA SlotsOfWindow ==
    ASSUME NEW front \in Cursor, NEW rear \in Cursor, front = -1 <=> rear = -1
    PROVE  /\ QueueLength(front, rear) \in 0 .. S
           /\ \A k \in 1 .. QueueLength(front, rear) :
                 /\ SlotAt(front, k) \in Slots
                 /\ ((front + k) - 1) % S = SlotAt(front, k)
<1>1. /\ QueueLength(front, rear) \in 0 .. S
      /\ \A k \in 1 .. QueueLength(front, rear) :
            /\ (front + k) - 1 \in 0 .. 2 * S - 1
            /\ SlotAt(front, k) \in Slots
  BY SizesArePositive DEF QueueLength, SlotAt, Cursor, Slots, S
<1>2. ASSUME NEW k \in 1 .. QueueLength(front, rear)
      PROVE  ((front + k) - 1) % S = SlotAt(front, k)
  BY <1>1, WrapsOnce, SizesArePositive DEF SlotAt
<1> QED
  BY <1>1, <1>2

\* An enqueue adds one slot at the end of the window.
LEMMA EnterWindow ==
    ASSUME NEW fn \in Cursor, NEW rn \in Cursor, fn = -1 <=> rn = -1, QueueLength(fn, rn) < S
    PROVE  LET front == IF fn = -1 THEN 0 ELSE fn
               rear == IF rn + 1 = S THEN 0 ELSE rn + 1
               size == QueueLength(fn, rn)
           IN  /\ QueueLength(front, rear) = size + 1
               /\ SlotAt(front, size + 1) = rear
               /\ \A k \in 1 .. size : /\ SlotAt(front, k) = SlotAt(fn, k)
                                       /\ SlotAt(front, k) # rear
  BY SizesArePositive DEF QueueLength, SlotAt, Cursor, S

\* A dequeue takes one slot from its start.
LEMMA LeaveWindow ==
    ASSUME NEW fn \in Slots, NEW rn \in Slots
    PROVE  LET front == IF fn = rn THEN -1 ELSE IF fn + 1 = S THEN 0 ELSE fn + 1
               rear == IF fn = rn THEN -1 ELSE rn
               size == QueueLength(fn, rn)
           IN  /\ size > 0 /\ QueueLength(front, rear) = size - 1
               /\ SlotAt(fn, 1) = fn
               /\ \A k \in 1 .. size - 1 : SlotAt(front, k) = SlotAt(fn, k + 1)
  BY SizesArePositive DEF QueueLength, SlotAt, Cursor, Slots, S

-----------------------------------------------------------------------------

(* The inductive invariant. *)

Paired == iq.front_next = -1 <=> iq.rear_next = -1

\* The loops of decode_step and issue_step start from 0 and end at the width.
IndexInPhase ==
    /\ phase \in {"fetch", "commit", "update"} => index = 0
    /\ phase = "decode" => index < W

\* A cycle starts with nothing written that is not read.
CopiesAgree ==
    phase = "fetch" =>
        /\ pc_src.current = pc_src.next
        /\ reg_pc_target.current = reg_pc_target.next
        /\ reg_insts.current = reg_insts.next

\* Decode leaves room for the rest of its batch, and issue takes what it has read.
CursorsInStep ==
    phase \in {"fetch", "decode", "issue"} =>
        \E added \in 0 .. S :
            /\ InStep(iq.front_current, iq.rear_current, iq.front_next, iq.rear_next,
                      added, IF phase = "issue" THEN index ELSE 0)
            /\ phase = "fetch" => added = 0
            /\ phase = "decode" =>
                  /\ added <= index
                  /\ QueueLength(iq.front_current, iq.rear_current) + W <= S

\* What issue_step reads is still what inst_queue_dequeue removes.
CurrentIsKept ==
    phase \in {"fetch", "decode", "issue"} =>
        \A i \in Slots : InWindow(iq.front_current, iq.rear_current, i)
                             => iq.queue_next[i] = iq.queue_current[i]

FrontInv ==
    /\ FrontTypeOK
    /\ Paired
    /\ IndexInPhase
    /\ CopiesAgree
    /\ CursorsInStep
    /\ CurrentIsKept
    /\ PathIsUnbroken

-----------------------------------------------------------------------------

(* The instructions of the queue. *)

Window(entries, front, rear) ==
    [k \in 1 .. QueueLength(front, rear) |-> entries[((front + k) - 1) % S]]

\* The instructions queued are the next window, before and after a step.
LEMMA InQueueIsWindow ==
    /\ InQueue = Window(iq.queue_next, iq.front_next, iq.rear_next)
    /\ InQueue' = Window(iq'.queue_next, iq'.front_next, iq'.rear_next)
  BY DEF InQueue, Window, S

\* A window read from front to rear is a sequence of instructions.
LEMMA WindowIsSequence ==
    ASSUME NEW q \in IqState, q.front_next = -1 <=> q.rear_next = -1
    PROVE  LET size == QueueLength(q.front_next, q.rear_next)
               queue == Window(q.queue_next, q.front_next, q.rear_next)
           IN  /\ size \in 0 .. S
               /\ queue \in Seq(Insts)
               /\ Len(queue) = size
               /\ \A k \in 1 .. size : /\ SlotAt(q.front_next, k) \in Slots
                                       /\ queue[k] = q.queue_next[SlotAt(q.front_next, k)]
<1> DEFINE front == q.front_next
           size == QueueLength(q.front_next, q.rear_next)
           queue == Window(q.queue_next, q.front_next, q.rear_next)
<1>1. /\ size \in 0 .. S
      /\ \A k \in 1 .. size : /\ SlotAt(front, k) \in Slots
                              /\ ((front + k) - 1) % S = SlotAt(front, k)
  BY IqTypes, SlotsOfWindow
<1>2. queue = [k \in 1 .. size |-> q.queue_next[((front + k) - 1) % S]]
  BY DEF Window
<1>3. q.queue_next \in [Slots -> Insts] /\ size \in Nat
  BY <1>1, IqTypes, SizesArePositive
<1> HIDE DEF front, size, queue
<1>4. \A k \in 1 .. size : queue[k] = q.queue_next[SlotAt(front, k)] /\ queue[k] \in Insts
  BY <1>1, <1>2, <1>3
<1>5. queue \in [1 .. size -> Insts]
  BY <1>2, <1>4
<1>6. queue \in Seq(Insts) /\ Len(queue) = size
  BY <1>3, <1>5
<1>7. \A k \in 1 .. size : /\ SlotAt(front, k) \in Slots
                           /\ queue[k] = q.queue_next[SlotAt(front, k)]
  BY <1>1, <1>4
<1> QED
  BY <1>1, <1>6, <1>7, Zenon DEF front, size, queue

\* What the proofs below need of the invariant.
LEMMA TypedIq ==
    /\ FrontInv => iq \in IqState /\ (iq.front_next = -1 <=> iq.rear_next = -1)
    /\ FrontTypeOK' => iq' \in IqState
  BY DEF FrontInv, FrontTypeOK, Paired, IqState

\* Steps that leave the queue being built as it is.
LEMMA SameQueue ==
    ASSUME iq'.queue_next = iq.queue_next,
           iq'.front_next = iq.front_next, iq'.rear_next = iq.rear_next
    PROVE  InQueue' = InQueue
  BY InQueueIsWindow

\* The instructions queued, as a sequence.
LEMMA QueueType ==
    ASSUME FrontInv
    PROVE  /\ InQueue \in Seq(Insts) /\ Len(InQueue) \in Nat
           /\ Len(InQueue) = QueueLength(iq.front_next, iq.rear_next)
           /\ InQueue = << >> <=> Len(InQueue) = 0
<1>1. /\ InQueue \in Seq(Insts)
      /\ Len(InQueue) = QueueLength(iq.front_next, iq.rear_next)
  BY TypedIq, InQueueIsWindow, WindowIsSequence
<1> QED
  BY <1>1

\* inst_queue_enqueue appends.
LEMMA EnqueueAppends ==
    ASSUME FrontInv, NEW inst \in Insts, iq' = inst_queue_enqueue(iq, inst),
           QueueLength(iq.front_next, iq.rear_next) < S
    PROVE  /\ Len(InQueue') = Len(InQueue) + 1
           /\ \A k \in 1 .. Len(InQueue) : InQueue'[k] = InQueue[k]
           /\ InQueue'[Len(InQueue) + 1] = inst
           /\ InQueue' # << >>
<1> DEFINE rear == IF iq.rear_next + 1 = S THEN 0 ELSE iq.rear_next + 1
           front == IF iq.front_next = -1 THEN 0 ELSE iq.front_next
           size == QueueLength(iq.front_next, iq.rear_next)
<1>1. iq \in IqState /\ (iq.front_next = -1 <=> iq.rear_next = -1)
  BY TypedIq
<1>2. /\ iq' \in IqState /\ rear \in Slots
      /\ iq'.front_next = front /\ iq'.rear_next = rear
      /\ iq'.queue_next[rear] = inst
      /\ \A i \in Slots : i # rear => iq'.queue_next[i] = iq.queue_next[i]
  BY <1>1, EnqueueIq
<1>3. /\ QueueLength(front, rear) = size + 1
      /\ SlotAt(front, size + 1) = rear
      /\ \A k \in 1 .. size : /\ SlotAt(front, k) = SlotAt(iq.front_next, k)
                              /\ SlotAt(front, k) # rear
  BY <1>1, IqTypes, EnterWindow
<1>4. iq'.front_next = -1 <=> iq'.rear_next = -1
  BY <1>1, <1>2, IqTypes, SizesArePositive DEF Slots, Cursor
<1> HIDE DEF rear, front
<1>5. /\ size \in Nat /\ Len(InQueue) = size
      /\ \A k \in 1 .. size : /\ SlotAt(iq.front_next, k) \in Slots
                              /\ InQueue[k] = iq.queue_next[SlotAt(iq.front_next, k)]
  BY <1>1, InQueueIsWindow, WindowIsSequence, SizesArePositive
<1>6. /\ InQueue' \in Seq(Insts) /\ Len(InQueue') = size + 1
      /\ \A k \in 1 .. size + 1 : InQueue'[k] = iq'.queue_next[SlotAt(front, k)]
  BY <1>2, <1>3, <1>4, InQueueIsWindow, WindowIsSequence
<1> HIDE DEF size
<1>7. size + 1 \in 1 .. size + 1 /\ \A k \in 1 .. size : k \in 1 .. size + 1
  BY <1>5
<1>8. InQueue'[size + 1] = inst
  BY <1>2, <1>3, <1>6, <1>7, Zenon
<1>9. \A k \in 1 .. size : InQueue'[k] = InQueue[k]
  BY <1>2, <1>3, <1>5, <1>6, <1>7
<1>10. InQueue' # << >>
  BY <1>5, <1>6
<1> QED
  BY <1>5, <1>6, <1>8, <1>9, <1>10

\* inst_queue_dequeue takes the first.
LEMMA DequeueTakes ==
    ASSUME FrontInv, iq' = inst_queue_dequeue(iq),
           iq.front_next \in Slots, iq.rear_next \in Slots
    PROVE  /\ Len(InQueue) > 0 /\ InQueue[1] = iq.queue_next[iq.front_next]
           /\ Len(InQueue') = Len(InQueue) - 1
           /\ InQueue' = << >> <=> Len(InQueue') = 0
           /\ \A k \in 1 .. Len(InQueue') : InQueue'[k] = InQueue[k + 1]
<1> DEFINE front == IF iq.front_next = iq.rear_next THEN -1
                    ELSE IF iq.front_next + 1 = S THEN 0 ELSE iq.front_next + 1
           rear == IF iq.front_next = iq.rear_next THEN -1 ELSE iq.rear_next
           size == QueueLength(iq.front_next, iq.rear_next)
<1>1. iq \in IqState /\ (iq.front_next = -1 <=> iq.rear_next = -1)
  BY TypedIq
<1>2. /\ iq' \in IqState /\ iq'.queue_next = iq.queue_next
      /\ iq'.front_next = front /\ iq'.rear_next = rear
  BY <1>1, DequeueIq
<1>3. /\ size > 0 /\ QueueLength(front, rear) = size - 1
      /\ SlotAt(iq.front_next, 1) = iq.front_next
      /\ \A k \in 1 .. size - 1 : SlotAt(front, k) = SlotAt(iq.front_next, k + 1)
  BY LeaveWindow
<1>4. iq'.front_next = -1 <=> iq'.rear_next = -1
  BY <1>2, SizesArePositive DEF Slots
<1> HIDE DEF rear, front
<1>5. /\ size \in Nat /\ Len(InQueue) = size
      /\ \A k \in 1 .. size : /\ SlotAt(iq.front_next, k) \in Slots
                              /\ InQueue[k] = iq.queue_next[SlotAt(iq.front_next, k)]
  BY <1>1, InQueueIsWindow, WindowIsSequence, SizesArePositive
<1>6. /\ InQueue' \in Seq(Insts) /\ Len(InQueue') = size - 1
      /\ \A k \in 1 .. size - 1 : InQueue'[k] = iq'.queue_next[SlotAt(front, k)]
  BY <1>2, <1>3, <1>4, InQueueIsWindow, WindowIsSequence
<1> HIDE DEF size
<1>7. InQueue[1] = iq.queue_next[iq.front_next]
  BY <1>3, <1>5
<1>8. ASSUME NEW k \in 1 .. size - 1 PROVE InQueue'[k] = InQueue[k + 1]
  <2>1. k + 1 \in 1 .. size
    BY <1>5
  <2> QED
    BY <1>2, <1>3, <1>5, <1>6, <2>1
<1>9. InQueue' = << >> <=> Len(InQueue') = 0
  <2>1. InQueue' \in Seq(Insts)
    BY <1>6
  <2> QED
    BY <2>1, EmptySeq
<1> QED
  BY <1>3, <1>5, <1>6, <1>7, <1>8, <1>9

-----------------------------------------------------------------------------

(* Each step keeps the invariant, and leaves the stream alone or moves it on. *)

\* Wherever a branch goes, there is an address.
LEMMA TargetsArePcs == Targets \subseteq Pcs /\ 0 \in Pcs /\ nothing \in Insts
  BY FrontEndAssumption DEF Pcs, Insts, nothing

\* Latches without instructions lead nowhere else.
LEMMA NoneLatched ==
    ASSUME NEW latches, NEW rest, \A i \in 1 .. W : ~latches[i].inst
    PROVE  Lead(latches, 1, rest) = rest /\ LeadsOn(latches, 1, rest)
<1>1. 1 \in 1 .. W + 1
  BY SizesArePositive
<1>2. Latched(latches, 1) = {} /\ Lead(latches, 1, rest) = rest
  BY <1>1, LeadOfNone
<1> QED
  BY <1>2 DEF LeadsOn

\* The front end starts with an empty queue and empty latches.
LEMMA InitFront == Init => FrontInv /\ InQueue = << >> /\ issue_pc = onward(0)
<1> SUFFICES ASSUME Init PROVE FrontInv /\ InQueue = << >> /\ issue_pc = onward(0)
  OBVIOUS
<1>1. /\ fetch_unit = [reg_npc |-> 0]
      /\ pc_src = [current |-> "NORMAL", next |-> "NORMAL"]
      /\ reg_pc_target = [current |-> 0, next |-> 0]
      /\ iq = inst_queue_init(nothing)
      /\ phase = "fetch" /\ index = 0 /\ issued = nothing
  BY DEF Init
<1>2. /\ reg_insts \in [current : Latches, next : Latches]
      /\ reg_insts.current = reg_insts.next
      /\ \A i \in 1 .. W : ~reg_insts.next[i].inst
  <2> DEFINE latches == [i \in 1 .. ISSUE_WIDTH |->
                            [inst |-> FALSE, inst_pc |-> 0, npc_pred |-> 0]]
  <2>1. latches \in Latches /\ \A i \in 1 .. W : ~latches[i].inst
    BY TargetsArePcs DEF Latches, W
  <2>2. reg_insts = [current |-> latches, next |-> latches]
    BY DEF Init
  <2> HIDE DEF latches
  <2> QED
    BY <2>1, <2>2
<1>3. /\ iq \in IqState
      /\ iq.queue_current = iq.queue_next
      /\ iq.front_current = -1 /\ iq.front_next = -1
      /\ iq.rear_current = -1 /\ iq.rear_next = -1
  BY <1>1, InitIq
<1>4. FrontTypeOK
  BY <1>1, <1>2, <1>3, TargetsArePcs, SizesArePositive DEF FrontTypeOK, IqState, W
<1>5. Paired /\ IndexInPhase /\ CopiesAgree
  BY <1>1, <1>2, <1>3 DEF Paired, IndexInPhase, CopiesAgree
<1>6. CursorsInStep /\ CurrentIsKept
  <2>1. InStep(-1, -1, -1, -1, 0, 0)
    BY UpdateWindow, SizesArePositive DEF Cursor
  <2>2. 0 \in 0 .. S
    BY SizesArePositive
  <2> QED
    BY <1>1, <1>3, <2>1, <2>2 DEF CursorsInStep, CurrentIsKept
<1>7. InQueue = << >>
  <2>1. QueueLength(iq.front_next, iq.rear_next) = 0
    BY <1>3 DEF QueueLength
  <2>2. InQueue \in Seq(Insts) /\ Len(InQueue) = 0
    BY <1>3, <2>1, InQueueIsWindow, WindowIsSequence
  <2> QED
    BY <2>2
<1>8. fetch_pc = 0 /\ ~Fetching
  BY <1>1 DEF fetch_pc, Fetching
<1>9. fetched_pc = onward(0) /\ LeadsOn(reg_insts.next, 1, onward(fetch_pc))
  BY <1>2, <1>8, NoneLatched DEF fetched_pc
<1>10. PathIsUnbroken
  BY <1>7, <1>8, <1>9 DEF PathIsUnbroken
<1>11. issue_pc = onward(0)
  BY <1>7, <1>8, <1>9 DEF issue_pc, decode_pc
<1> QED
  BY <1>4, <1>5, <1>6, <1>7, <1>10, <1>11 DEF FrontInv

\* fetch_step lengthens the path at its end.
LEMMA FetchStep ==
    ASSUME FrontInv, Fetch
    PROVE  FrontInv' /\ UNCHANGED <<issue_pc, issued>>
<1> DEFINE reg_pc == IF pc_src.current = "NORMAL" THEN fetch_unit.reg_npc
                     ELSE reg_pc_target.current
<1>1. /\ phase = "fetch" /\ phase' = "decode" /\ inst_queue_free_slots(iq)
      /\ pc_src' = IF pc_src.current = "NORMAL" THEN pc_src ELSE [pc_src EXCEPT !.next = "NORMAL"]
      /\ UNCHANGED <<reg_pc_target, iq, index, issued>>
  BY DEF Fetch
<1>2. PICK btb \in Predictions :
        /\ reg_insts' = [reg_insts EXCEPT !.next = Fetched(reg_pc, btb)]
        /\ fetch_unit' = [reg_npc |-> Fetched(reg_pc, btb)[ISSUE_WIDTH].npc_pred]
  BY DEF Fetch
<1>3. /\ fetch_unit \in [reg_npc : Pcs]
      /\ pc_src \in [current : {"NORMAL", "MISPREDICT"}, next : {"NORMAL", "MISPREDICT"}]
      /\ reg_pc_target \in [current : Pcs, next : Pcs]
      /\ reg_insts \in [current : Latches, next : Latches]
  BY DEF FrontInv, FrontTypeOK
<1>4. /\ pc_src.current = pc_src.next
      /\ reg_pc_target.current = reg_pc_target.next
      /\ reg_insts.current = reg_insts.next
      /\ index = 0
  BY <1>1 DEF FrontInv, CopiesAgree, IndexInPhase
<1>5. reg_pc \in Pcs /\ reg_pc = fetch_pc
  BY <1>3, <1>4 DEF fetch_pc
<1> HIDE DEF reg_pc
<1> DEFINE fetched == Fetched(reg_pc, btb)
<1>6. fetched \in Latches
  BY <1>5, FetchedIsPath
<1>7. PICK last : FetchedPath(fetched, last, reg_pc)
  BY <1>5, FetchedIsPath
<1> HIDE DEF fetched
<1>8. /\ Lead(fetched, 1, onward(fetched[W].npc_pred)) = onward(reg_pc)
      /\ LeadsOn(fetched, 1, onward(fetched[W].npc_pred))
  BY <1>7, FetchedLeadsOn
<1>9. fetched[W].npc_pred \in Pcs
  BY <1>6, SizesArePositive DEF Latches, W
<1>10. /\ reg_insts' \in [current : Latches, next : Latches]
       /\ reg_insts'.next = fetched /\ reg_insts'.current = reg_insts.next
       /\ fetch_unit' = [reg_npc |-> fetched[W].npc_pred]
       /\ fetch_unit' \in [reg_npc : Pcs]
  BY <1>2, <1>3, <1>4, <1>6, <1>9 DEF fetched, W
<1>11. /\ pc_src' \in [current : {"NORMAL", "MISPREDICT"}, next : {"NORMAL", "MISPREDICT"}]
       /\ pc_src'.next = "NORMAL"
  BY <1>1, <1>3, <1>4
<1>12. fetch_pc' = fetched[W].npc_pred
  BY <1>10, <1>11 DEF fetch_pc
<1>13. fetched_pc' = onward(fetch_pc)
  <2>1. fetched_pc' = Lead(fetched, 1, onward(fetched[W].npc_pred))
    BY <1>10, <1>12 DEF fetched_pc
  <2> QED
    BY <1>5, <1>8, <2>1
<1>14. decode_pc' = decode_pc
  <2>1. decode_pc = Lead(reg_insts.next, 1, onward(fetch_pc))
    BY <1>1 DEF decode_pc, fetched_pc, Fetching
  <2>2. decode_pc' = Lead(reg_insts'.current, index' + 1, fetched_pc')
    BY <1>1 DEF decode_pc, Fetching
  <2>3. index' + 1 = 1
    BY <1>1, <1>4
  <2> QED
    BY <1>10, <1>13, <2>1, <2>2, <2>3
<1>15. InQueue' = InQueue
  BY <1>1, SameQueue
<1>16. PathIsUnbroken'
  <2>1. LeadsOn(reg_insts.next, 1, onward(fetch_pc))
    BY DEF FrontInv, PathIsUnbroken
  <2>2. LeadsOn(reg_insts'.current, index' + 1, fetched_pc')
    <3>1. index' + 1 = 1
      BY <1>1, <1>4
    <3> QED
      BY <1>10, <1>13, <2>1, <3>1
  <2>3. LeadsOn(reg_insts'.next, 1, onward(fetch_pc'))
    BY <1>8, <1>10, <1>12
  <2>4. \A k \in 1 .. Len(InQueue') :
           onward(InQueue'[k].npc_pred) =
               IF k < Len(InQueue') THEN InQueue'[k + 1].inst_pc ELSE decode_pc'
    BY <1>14, <1>15 DEF FrontInv, PathIsUnbroken
  <2> QED
    BY <2>2, <2>3, <2>4 DEF PathIsUnbroken
<1>17. FrontTypeOK'
  BY <1>1, <1>10, <1>11 DEF FrontInv, FrontTypeOK
<1>18. Paired' /\ IndexInPhase' /\ CopiesAgree'
  BY <1>1, <1>4, SizesArePositive DEF FrontInv, Paired, IndexInPhase, CopiesAgree
<1>19. CursorsInStep'
  <2>1. InStep(iq.front_current, iq.rear_current, iq.front_next, iq.rear_next, 0, 0)
    BY <1>1 DEF FrontInv, CursorsInStep
  <2>2. QueueLength(iq.front_current, iq.rear_current) + W <= S
    BY <1>1, <2>1, TypedIq, FreeSlots DEF InStep
  <2>3. 0 \in 0 .. S
    BY SizesArePositive
  <2> QED
    BY <1>1, <1>4, <2>1, <2>2, <2>3 DEF CursorsInStep
<1>20. CurrentIsKept'
  BY <1>1 DEF FrontInv, CurrentIsKept
<1> QED
  BY <1>1, <1>14, <1>15, <1>16, <1>17, <1>18, <1>19, <1>20 DEF FrontInv, issue_pc

\* The first pc of what decode_step has still to enqueue, after this latch.
LEMMA DecodeGoesOn ==
    ASSUME FrontInv, DecodeLatch
    PROVE  /\ index + 1 \in 1 .. W
           /\ decode_pc = Lead(reg_insts.current, index + 1, fetched_pc)
           /\ decode_pc' = Lead(reg_insts.current, (index + 1) + 1, fetched_pc)
           /\ fetched_pc' = fetched_pc /\ fetch_pc' = fetch_pc
<1>1. /\ phase = "decode" /\ UNCHANGED <<fetch_unit, pc_src, reg_pc_target, reg_insts>>
      /\ \/ index + 1 < W /\ index' = index + 1 /\ phase' = phase
         \/ ~(index + 1 < W) /\ phase' = "issue"
  BY DEF DecodeLatch, W
<1>2. index \in Nat /\ index < W
  BY <1>1 DEF FrontInv, FrontTypeOK, IndexInPhase
<1>3. fetch_pc' = fetch_pc /\ fetched_pc' = fetched_pc
  BY <1>1 DEF fetch_pc, fetched_pc
<1>4. decode_pc = Lead(reg_insts.current, index + 1, fetched_pc)
  BY <1>1 DEF decode_pc, Fetching
<1>5. CASE index + 1 < W /\ index' = index + 1 /\ phase' = phase
  BY <1>1, <1>2, <1>3, <1>4, <1>5, SizesArePositive DEF decode_pc, Fetching
<1>6. CASE ~(index + 1 < W) /\ phase' = "issue"
  <2>1. (index + 1) + 1 = W + 1 /\ W + 1 \in 1 .. W + 1 /\ \A i \in W + 1 .. W : FALSE
    BY <1>2, <1>6, SizesArePositive
  <2>2. Lead(reg_insts.current, W + 1, fetched_pc) = fetched_pc
    BY <2>1, LeadOfNone
  <2>3. decode_pc' = fetched_pc'
    BY <1>6 DEF decode_pc, Fetching
  <2> QED
    BY <1>2, <1>3, <1>4, <2>1, <2>2, <2>3, SizesArePositive
<1> QED
  BY <1>1, <1>5, <1>6

\* decode_step moves the path's first latch to the end of the queue.
LEMMA DecodeStep ==
    ASSUME FrontInv, DecodeLatch
    PROVE  /\ FrontInv' /\ UNCHANGED <<issue_pc, issued>>
           /\ reg_insts.current[index + 1].inst => Len(InQueue') = Len(InQueue) + 1
           /\ ~reg_insts.current[index + 1].inst => InQueue' = InQueue
<1> DEFINE latch == reg_insts.current[index + 1]
           inst == [inst_pc |-> latch.inst_pc, npc_pred |-> latch.npc_pred]
           size == Len(InQueue)
<1>1. /\ phase = "decode"
      /\ iq' = IF latch.inst THEN inst_queue_enqueue(iq, inst) ELSE iq
      /\ \/ index + 1 < W /\ index' = index + 1 /\ phase' = phase
         \/ ~(index + 1 < W) /\ index' = 0 /\ phase' = "issue"
      /\ UNCHANGED <<fetch_unit, pc_src, reg_pc_target, reg_insts, issued>>
  BY DEF DecodeLatch, W
<1>2. /\ index \in Nat /\ index + 1 \in 1 .. W
      /\ decode_pc = Lead(reg_insts.current, index + 1, fetched_pc)
      /\ decode_pc' = Lead(reg_insts.current, (index + 1) + 1, fetched_pc)
      /\ fetched_pc' = fetched_pc /\ fetch_pc' = fetch_pc
  BY DecodeGoesOn DEF FrontInv, FrontTypeOK
<1>3. inst \in Insts
  BY <1>2 DEF FrontInv, FrontTypeOK, Latches, Insts, W
<1>4. iq \in IqState /\ size \in Nat /\ (InQueue = << >> <=> size = 0)
      /\ size = QueueLength(iq.front_next, iq.rear_next)
  BY TypedIq, QueueType
<1>5. PICK added \in 0 .. S :
        /\ InStep(iq.front_current, iq.rear_current, iq.front_next, iq.rear_next, added, 0)
        /\ added <= index
        /\ QueueLength(iq.front_current, iq.rear_current) + W <= S
  BY <1>1 DEF FrontInv, CursorsInStep
<1>6. /\ \A k \in 1 .. size : onward(InQueue[k].npc_pred) =
             IF k < size THEN InQueue[k + 1].inst_pc ELSE decode_pc
      /\ LeadsOn(reg_insts.current, index + 1, fetched_pc)
      /\ LeadsOn(reg_insts.next, 1, onward(fetch_pc))
  BY <1>1 DEF FrontInv, PathIsUnbroken, Fetching
<1>7. LeadsOn(reg_insts.current, (index + 1) + 1, fetched_pc)
  <2>1. \A i \in Latched(reg_insts.current, (index + 1) + 1) :
            i \in Latched(reg_insts.current, index + 1)
    BY <1>2, SizesArePositive DEF Latched, W
  <2> QED
    BY <1>6, <2>1 DEF LeadsOn
<1>8. /\ Fetching' => LeadsOn(reg_insts'.current, index' + 1, fetched_pc')
      /\ LeadsOn(reg_insts'.next, 1, onward(fetch_pc'))
  BY <1>1, <1>2, <1>6, <1>7 DEF Fetching
<1>9. Paired' /\ IndexInPhase' /\ CopiesAgree'
  <2>1. IndexInPhase' /\ CopiesAgree'
    BY <1>1, <1>2 DEF IndexInPhase, CopiesAgree
  <2>2. Paired'
    <3>1. CASE latch.inst
      <4>1. /\ iq'.front_next = IF iq.front_next = -1 THEN 0 ELSE iq.front_next
            /\ iq'.rear_next \in Slots
        BY <1>1, <1>3, <1>4, <3>1, EnqueueIq
      <4> QED
        BY <1>4, <4>1, IqTypes, SizesArePositive DEF Paired, Slots, Cursor
    <3>2. CASE ~latch.inst
      BY <1>1, <3>2 DEF FrontInv, Paired
    <3> QED
      BY <3>1, <3>2
  <2> QED
    BY <2>1, <2>2
<1>10. index' \in 0 .. W /\ phase' \in {"decode", "issue"}
  BY <1>1, <1>2, SizesArePositive
<1>11. CASE latch.inst
  <2> DEFINE rear == IF iq.rear_next + 1 = S THEN 0 ELSE iq.rear_next + 1
             front == IF iq.front_next = -1 THEN 0 ELSE iq.front_next
  <2>1. iq' = inst_queue_enqueue(iq, inst)
    BY <1>1, <1>11
  <2>2. /\ iq' \in IqState /\ rear \in Slots
        /\ iq'.queue_current = iq.queue_current
        /\ iq'.front_current = iq.front_current /\ iq'.rear_current = iq.rear_current
        /\ iq'.front_next = front /\ iq'.rear_next = rear
        /\ \A i \in Slots : i # rear => iq'.queue_next[i] = iq.queue_next[i]
    BY <1>3, <1>4, <2>1, EnqueueIq
  <2>3. QueueLength(iq.front_current, iq.rear_current) + added < S
    <3>1. QueueLength(iq.front_current, iq.rear_current) \in Nat
      BY <1>4, <1>5, IqTypes, SlotsOfWindow, SizesArePositive DEF InStep
    <3> QED
      BY <1>2, <1>5, <3>1, SizesArePositive
  <2>4. /\ InStep(iq.front_current, iq.rear_current, front, rear, added + 1, 0)
        /\ ~InWindow(iq.front_current, iq.rear_current, rear)
        /\ QueueLength(iq.front_next, iq.rear_next) < S
    BY <1>4, <1>5, <2>3, IqTypes, EnqueueWindow
  <2> HIDE DEF rear, front, inst
  <2>5. /\ Len(InQueue') = size + 1
        /\ \A k \in 1 .. size : InQueue'[k] = InQueue[k]
        /\ InQueue'[size + 1] = inst
        /\ InQueue' # << >>
    BY <1>3, <2>1, <2>4, EnqueueAppends
  <2>6. decode_pc = inst.inst_pc
    BY <1>2, <1>11, LeadOfFull DEF inst
  <2>7. onward(inst.npc_pred) = decode_pc'
    <3>1. index + 1 \in Latched(reg_insts.current, index + 1)
      BY <1>2, <1>11, LatchedFromNext
    <3> QED
      BY <1>2, <1>6, <3>1 DEF LeadsOn, inst
  <2> HIDE DEF latch, size
  <2>8. ASSUME NEW k \in 1 .. size + 1
        PROVE  onward(InQueue'[k].npc_pred) =
                  IF k < size + 1 THEN InQueue'[k + 1].inst_pc ELSE decode_pc'
    <3>1. CASE k = size + 1
      BY <2>5, <2>7, <3>1
    <3>2. CASE k = size
      <4>1. k \in 1 .. size /\ k < size + 1 /\ ~(k < size)
        BY <1>4, <3>2
      <4> QED
        BY <1>6, <2>5, <2>6, <3>2, <4>1
    <3>3. CASE k < size
      <4>1. k \in 1 .. size /\ k + 1 \in 1 .. size /\ k < size + 1
        BY <1>4, <3>3
      <4> QED
        BY <1>6, <2>5, <3>3, <4>1
    <3> QED
      BY <1>4, <3>1, <3>2, <3>3
  <2>9. PathIsUnbroken'
    BY <1>8, <2>5, <2>8 DEF PathIsUnbroken
  <2>10. issue_pc' = issue_pc
    <3>1. CASE size = 0
      BY <1>4, <2>5, <2>6, <3>1 DEF issue_pc
    <3>2. CASE size # 0
      <4>1. 1 \in 1 .. size
        BY <1>4, <3>2
      <4> QED
        BY <1>4, <2>5, <3>2, <4>1 DEF issue_pc
    <3> QED
      BY <3>1, <3>2
  <2>11. FrontTypeOK'
    BY <1>1, <1>10, <2>2 DEF FrontInv, FrontTypeOK, IqState, W
  <2>12. CursorsInStep'
    <3>1. added + 1 \in 0 .. S
      <4>1. QueueLength(iq.front_current, iq.rear_current) \in Nat
        BY <1>4, <1>5, IqTypes, SlotsOfWindow, SizesArePositive DEF InStep
      <4> QED
        BY <2>3, <4>1, SizesArePositive
    <3>2. phase' = "decode" => added + 1 <= index'
      BY <1>1, <1>2, <1>5, SizesArePositive
    <3>3. phase' = "issue" => index' = 0
      BY <1>1
    <3> QED
      BY <1>5, <1>10, <2>2, <2>4, <3>1, <3>2, <3>3 DEF CursorsInStep
  <2>13. CurrentIsKept'
    BY <1>1, <2>2, <2>4 DEF FrontInv, CurrentIsKept
  <2> QED
    BY <1>1, <1>9, <1>11, <2>5, <2>9, <2>10, <2>11, <2>12, <2>13 DEF FrontInv, latch, size
<1>12. CASE ~latch.inst
  <2>1. iq' = iq
    BY <1>1, <1>12
  <2>2. InQueue' = InQueue
    BY <2>1, SameQueue
  <2>3. decode_pc' = decode_pc
    BY <1>2, <1>12, LeadOfEmpty
  <2>4. PathIsUnbroken'
    BY <1>6, <1>8, <2>2, <2>3 DEF PathIsUnbroken
  <2>5. issue_pc' = issue_pc
    BY <2>2, <2>3 DEF issue_pc
  <2>6. FrontTypeOK'
    BY <1>1, <1>10, <2>1 DEF FrontInv, FrontTypeOK, W
  <2>7. CursorsInStep'
    <3>1. phase' = "decode" => added <= index'
      BY <1>1, <1>2, <1>5, SizesArePositive
    <3>2. phase' = "issue" => index' = 0
      BY <1>1
    <3> QED
      BY <1>5, <1>10, <2>1, <3>1, <3>2 DEF CursorsInStep
  <2>8. CurrentIsKept'
    BY <1>1, <2>1 DEF FrontInv, CurrentIsKept
  <2> QED
    BY <1>1, <1>9, <1>12, <2>2, <2>4, <2>5, <2>6, <2>7, <2>8 DEF FrontInv
<1> QED
  BY <1>11, <1>12

\* Behind decode_step the path does not move as long as the next copies do not.
LEMMA SamePath ==
    ASSUME FrontInv, ~Fetching, ~Fetching', fetch_pc' = fetch_pc,
           reg_insts'.next = reg_insts.next, InQueue' = InQueue
    PROVE  PathIsUnbroken' /\ issue_pc' = issue_pc
<1>1. fetched_pc' = fetched_pc /\ decode_pc' = decode_pc
  BY DEF fetched_pc, decode_pc
<1>2. issue_pc' = issue_pc
  BY <1>1 DEF issue_pc
<1>3. /\ \A k \in 1 .. Len(InQueue') :
           onward(InQueue'[k].npc_pred) =
               IF k < Len(InQueue') THEN InQueue'[k + 1].inst_pc ELSE decode_pc'
      /\ LeadsOn(reg_insts'.next, 1, onward(fetch_pc'))
  BY <1>1 DEF FrontInv, PathIsUnbroken
<1> QED
  BY <1>2, <1>3 DEF PathIsUnbroken

\* A cycle in which fetch and decode stall loses nothing.
LEMMA StallStep ==
    ASSUME FrontInv, Stall
    PROVE  FrontInv' /\ UNCHANGED <<issue_pc, issued>>
<1>1. /\ phase = "fetch" /\ phase' = "issue"
      /\ UNCHANGED <<fetch_unit, pc_src, reg_pc_target, reg_insts, iq, index, issued>>
  BY DEF Stall
<1>2. index = 0
  BY <1>1 DEF FrontInv, IndexInPhase
<1>3. PathIsUnbroken' /\ issue_pc' = issue_pc
  <2>1. fetch_pc' = fetch_pc /\ ~Fetching /\ ~Fetching' /\ InQueue' = InQueue
    BY <1>1, SameQueue DEF fetch_pc, Fetching
  <2> QED
    BY <1>1, <2>1, SamePath
<1>4. FrontTypeOK' /\ Paired' /\ IndexInPhase' /\ CopiesAgree' /\ CurrentIsKept'
  BY <1>1 DEF FrontInv, FrontTypeOK, Paired, IndexInPhase, CopiesAgree, CurrentIsKept
<1>5. CursorsInStep'
  <2>1. InStep(iq.front_current, iq.rear_current, iq.front_next, iq.rear_next, 0, 0)
    BY <1>1 DEF FrontInv, CursorsInStep
  <2>2. 0 \in 0 .. S
    BY SizesArePositive
  <2> QED
    BY <1>1, <1>2, <2>1, <2>2 DEF CursorsInStep
<1> QED
  BY <1>1, <1>3, <1>4, <1>5 DEF FrontInv

\* The end of the issue loop changes nothing of the stream.
LEMMA EndIssueStep ==
    ASSUME FrontInv, EndIssue
    PROVE  FrontInv' /\ UNCHANGED <<issue_pc, issued>>
<1>1. /\ phase = "issue" /\ phase' = "commit" /\ index' = 0
      /\ UNCHANGED <<fetch_unit, pc_src, reg_pc_target, reg_insts, iq, issued>>
  BY DEF EndIssue
<1>2. PathIsUnbroken' /\ issue_pc' = issue_pc
  <2>1. fetch_pc' = fetch_pc /\ ~Fetching /\ ~Fetching' /\ InQueue' = InQueue
    BY <1>1, SameQueue DEF fetch_pc, Fetching
  <2> QED
    BY <1>1, <2>1, SamePath
<1>3. FrontTypeOK'
  BY <1>1, SizesArePositive DEF FrontInv, FrontTypeOK, W
<1>4. Paired' /\ IndexInPhase' /\ CopiesAgree' /\ CursorsInStep' /\ CurrentIsKept'
  BY <1>1 DEF FrontInv, Paired, IndexInPhase, CopiesAgree, CursorsInStep, CurrentIsKept
<1> QED
  BY <1>1, <1>2, <1>3, <1>4 DEF FrontInv

\* The cycle ends: what is read becomes what was written.
LEMMA UpdateCurrentStep ==
    ASSUME FrontInv, UpdateCurrent
    PROVE  FrontInv' /\ UNCHANGED <<issue_pc, issued>>
<1>1. /\ phase = "update" /\ phase' = "fetch"
      /\ pc_src' = latched(pc_src)
      /\ reg_pc_target' = latched(reg_pc_target)
      /\ reg_insts' = latched(reg_insts)
      /\ iq' = inst_queue_update_current(iq)
      /\ UNCHANGED <<fetch_unit, index, issued>>
  BY DEF UpdateCurrent
<1>2. /\ pc_src \in [current : {"NORMAL", "MISPREDICT"}, next : {"NORMAL", "MISPREDICT"}]
      /\ reg_pc_target \in [current : Pcs, next : Pcs]
      /\ reg_insts \in [current : Latches, next : Latches]
  BY DEF FrontInv, FrontTypeOK
<1>3. /\ pc_src' \in [current : {"NORMAL", "MISPREDICT"}, next : {"NORMAL", "MISPREDICT"}]
      /\ reg_pc_target' \in [current : Pcs, next : Pcs]
      /\ reg_insts' \in [current : Latches, next : Latches]
      /\ pc_src'.current = pc_src.next /\ pc_src'.next = pc_src.next
      /\ reg_pc_target'.current = reg_pc_target.next /\ reg_pc_target'.next = reg_pc_target.next
      /\ reg_insts'.current = reg_insts.next /\ reg_insts'.next = reg_insts.next
  BY <1>1, <1>2 DEF latched
<1>4. iq \in IqState /\ (iq.front_next = -1 <=> iq.rear_next = -1)
  BY TypedIq
<1>5. /\ iq' \in IqState
      /\ iq'.queue_current = iq.queue_next /\ iq'.queue_next = iq.queue_next
      /\ iq'.front_current = iq.front_next /\ iq'.front_next = iq.front_next
      /\ iq'.rear_current = iq.rear_next /\ iq'.rear_next = iq.rear_next
  BY <1>1, <1>4, UpdateIq
<1>6. PathIsUnbroken' /\ issue_pc' = issue_pc
  <2>1. fetch_pc' = fetch_pc /\ ~Fetching /\ ~Fetching' /\ InQueue' = InQueue
    BY <1>1, <1>3, <1>5, SameQueue DEF fetch_pc, Fetching
  <2> QED
    BY <1>3, <2>1, SamePath
<1>7. FrontTypeOK'
  BY <1>1, <1>3, <1>5 DEF FrontInv, FrontTypeOK, IqState
<1>8. Paired' /\ IndexInPhase' /\ CopiesAgree' /\ CurrentIsKept'
  BY <1>1, <1>3, <1>4, <1>5 DEF FrontInv, Paired, IndexInPhase, CopiesAgree, CurrentIsKept
<1>9. CursorsInStep'
  <2>1. InStep(iq.front_next, iq.rear_next, iq.front_next, iq.rear_next, 0, 0)
    BY <1>4, IqTypes, UpdateWindow
  <2>2. 0 \in 0 .. S
    BY SizesArePositive
  <2> QED
    BY <1>1, <1>5, <2>1, <2>2 DEF CursorsInStep
<1> QED
  BY <1>1, <1>6, <1>7, <1>8, <1>9 DEF FrontInv

\* issue_step takes the first instruction of the path.
LEMMA IssueStep ==
    ASSUME FrontInv, Issue
    PROVE  /\ FrontInv'
           /\ issued' \in Insts /\ issued'.inst_pc = issue_pc
           /\ issue_pc' = onward(issued'.npc_pred)
           /\ Len(InQueue) > 0 /\ Len(InQueue') = Len(InQueue) - 1
<1> DEFINE size == Len(InQueue)
<1>1. /\ phase = "issue" /\ phase' = "issue"
      /\ index < W /\ index < QueueLength(iq.front_current, iq.rear_current)
      /\ issued' = inst_queue_front(iq, index)
      /\ iq' = inst_queue_dequeue(iq)
      /\ index' = index + 1
      /\ UNCHANGED <<fetch_unit, pc_src, reg_pc_target, reg_insts>>
  BY DEF Issue, inst_queue_cur_entries, W
<1>2. iq \in IqState /\ index \in Nat /\ size \in Nat
  BY TypedIq, QueueType, SizesArePositive DEF FrontInv, FrontTypeOK
<1>3. PICK added \in 0 .. S :
        InStep(iq.front_current, iq.rear_current, iq.front_next, iq.rear_next, added, index)
  BY <1>1 DEF FrontInv, CursorsInStep
<1> DEFINE front == IF iq.front_next = iq.rear_next THEN -1
                    ELSE IF iq.front_next + 1 = S THEN 0 ELSE iq.front_next + 1
           rear == IF iq.front_next = iq.rear_next THEN -1 ELSE iq.rear_next
<1>4. /\ InStep(iq.front_current, iq.rear_current, front, rear, added, index + 1)
      /\ iq.front_next \in Slots /\ iq.rear_next \in Slots
      /\ iq.front_next = AfterLap(iq.front_current + index)
      /\ InWindow(iq.front_current, iq.rear_current, iq.front_next)
  BY <1>1, <1>2, <1>3, IqTypes, DequeueWindow, SizesArePositive
<1>5. /\ iq' \in IqState
      /\ iq'.queue_current = iq.queue_current /\ iq'.queue_next = iq.queue_next
      /\ iq'.front_current = iq.front_current /\ iq'.rear_current = iq.rear_current
      /\ iq'.front_next = front /\ iq'.rear_next = rear
  BY <1>1, <1>2, DequeueIq
<1>6. /\ size > 0 /\ InQueue[1] = iq.queue_next[iq.front_next]
      /\ Len(InQueue') = size - 1
      /\ InQueue' = << >> <=> Len(InQueue') = 0
      /\ \A k \in 1 .. Len(InQueue') : InQueue'[k] = InQueue[k + 1]
  BY <1>1, <1>4, DequeueTakes
<1>7. issued' = InQueue[1]
  <2>1. CASE iq.front_current + index < S
    <3>1. issued' = iq.queue_current[iq.front_current + index]
      BY <1>1, <2>1 DEF inst_queue_front, S
    <3>2. iq.front_next = iq.front_current + index
      BY <1>4, <2>1 DEF AfterLap
    <3>3. iq.queue_next[iq.front_next] = iq.queue_current[iq.front_next]
      BY <1>1, <1>4 DEF FrontInv, CurrentIsKept
    <3> QED
      BY <1>6, <3>1, <3>2, <3>3
  <2>2. CASE ~(iq.front_current + index < S)
    <3>1. issued' = iq.queue_next[(iq.front_current + index) - S]
      BY <1>1, <2>2 DEF inst_queue_front, S
    <3>2. iq.front_next = (iq.front_current + index) - S
      BY <1>4, <2>2 DEF AfterLap
    <3> QED
      BY <1>6, <3>1, <3>2
  <2> QED
    BY <2>1, <2>2
<1>8. issued' \in Insts /\ issued'.inst_pc = issue_pc
  <2>1. InQueue # << >> /\ InQueue[1] \in Insts
    BY <1>2, <1>4, <1>6, IqTypes, QueueType
  <2> QED
    BY <1>7, <2>1 DEF issue_pc
<1>9. decode_pc' = decode_pc /\ fetch_pc' = fetch_pc /\ ~Fetching'
  BY <1>1 DEF decode_pc, fetched_pc, fetch_pc, Fetching
<1>10. /\ \A k \in 1 .. size : onward(InQueue[k].npc_pred) =
               IF k < size THEN InQueue[k + 1].inst_pc ELSE decode_pc
       /\ LeadsOn(reg_insts.next, 1, onward(fetch_pc))
  BY DEF FrontInv, PathIsUnbroken
<1> HIDE DEF size, front, rear
<1>11. issue_pc' = onward(issued'.npc_pred)
  <2>1. onward(InQueue[1].npc_pred) = IF 1 < size THEN InQueue[2].inst_pc ELSE decode_pc
    BY <1>2, <1>6, <1>10
  <2>2. CASE 1 < size
    <3>1. InQueue' # << >> /\ InQueue'[1] = InQueue[2]
      BY <1>2, <1>6, <2>2
    <3> QED
      BY <1>7, <2>1, <2>2, <3>1 DEF issue_pc
  <2>3. CASE ~(1 < size)
    <3>1. InQueue' = << >>
      BY <1>2, <1>6, <2>3
    <3> QED
      BY <1>7, <1>9, <2>1, <2>3, <3>1 DEF issue_pc
  <2> QED
    BY <2>2, <2>3
<1>12. PathIsUnbroken'
  <2>1. ASSUME NEW k \in 1 .. size - 1
        PROVE  onward(InQueue'[k].npc_pred) =
                  IF k < size - 1 THEN InQueue'[k + 1].inst_pc ELSE decode_pc'
    <3>1. /\ k \in 1 .. Len(InQueue') /\ k + 1 \in 1 .. size
          /\ k < size - 1 => k + 1 \in 1 .. Len(InQueue')
          /\ k + 1 < size <=> k < size - 1
      BY <1>2, <1>6
    <3>2. InQueue'[k] = InQueue[k + 1]
      BY <1>6, <3>1
    <3>3. k < size - 1 => InQueue'[k + 1] = InQueue[(k + 1) + 1]
      BY <1>6, <3>1
    <3> QED
      BY <1>9, <1>10, <3>1, <3>2, <3>3
  <2> QED
    BY <1>1, <1>6, <1>9, <1>10, <2>1 DEF PathIsUnbroken
<1>13. FrontTypeOK'
  <2>1. index' \in 0 .. ISSUE_WIDTH
    BY <1>1, <1>2, SizesArePositive DEF W
  <2> QED
    BY <1>1, <1>5, <1>8, <2>1 DEF FrontInv, FrontTypeOK, IqState
<1>14. Paired' /\ IndexInPhase' /\ CopiesAgree'
  <2>1. front = -1 <=> rear = -1
    BY <1>4, SizesArePositive DEF front, rear, Slots
  <2> QED
    BY <1>1, <1>5, <2>1 DEF Paired, IndexInPhase, CopiesAgree
<1>15. CursorsInStep' /\ CurrentIsKept'
  BY <1>1, <1>4, <1>5 DEF FrontInv, CursorsInStep, CurrentIsKept
<1>16. FrontInv'
  BY <1>12, <1>13, <1>14, <1>15 DEF FrontInv
<1>17. Len(InQueue) > 0 /\ Len(InQueue') = Len(InQueue) - 1
  BY <1>6 DEF size
<1> QED
  BY <1>8, <1>11, <1>16, <1>17

\* What commit_clear leaves of the front end.
Flushed ==
    /\ InQueue' = << >> /\ iq'.front_next = -1 /\ iq'.rear_next = -1
    /\ \A i \in 1 .. W : ~reg_insts'.next[i].inst
    /\ pc_src'.next = "MISPREDICT"
    /\ reg_pc_target'.next \in Pcs
    /\ issue_pc' = onward(reg_pc_target'.next)

\* commit_step empties queue and latches and starts another path, or leaves all alone.
LEMMA CommitStep ==
    ASSUME FrontInv, Commit
    PROVE  /\ FrontInv'
           /\ \/ Flushed
              \/ UNCHANGED <<issue_pc, InQueue, iq, reg_pc_target, pc_src, reg_insts>>
<1>1. /\ phase = "commit" /\ phase' = "update"
      /\ UNCHANGED <<fetch_unit, index, issued>>
  BY DEF Commit
<1>2. IndexInPhase' /\ CopiesAgree' /\ CursorsInStep' /\ CurrentIsKept'
  BY <1>1 DEF FrontInv, IndexInPhase, CopiesAgree, CursorsInStep, CurrentIsKept
<1>3. CASE UNCHANGED <<iq, reg_pc_target, pc_src, reg_insts>>
  <2>1. fetch_pc' = fetch_pc /\ ~Fetching /\ ~Fetching' /\ InQueue' = InQueue
    BY <1>1, <1>3, SameQueue DEF fetch_pc, Fetching
  <2>2. PathIsUnbroken' /\ issue_pc' = issue_pc
    BY <1>3, <2>1, SamePath
  <2>3. FrontTypeOK' /\ Paired'
    BY <1>1, <1>3 DEF FrontInv, FrontTypeOK, Paired
  <2> QED
    BY <1>2, <1>3, <2>1, <2>2, <2>3 DEF FrontInv
<1>4. ASSUME NEW target \in Targets, Flush(target)
      PROVE  FrontInv' /\ Flushed
  <2> DEFINE emptied == [i \in 1 .. ISSUE_WIDTH |-> [reg_insts.next[i] EXCEPT !.inst = FALSE]]
  <2>1. /\ iq' = inst_queue_clear(iq)
        /\ reg_pc_target' = [reg_pc_target EXCEPT !.next = target]
        /\ pc_src' = [pc_src EXCEPT !.next = "MISPREDICT"]
        /\ reg_insts' = [reg_insts EXCEPT !.next = emptied]
    BY <1>4 DEF Flush
  <2>2. target \in Pcs
    BY TargetsArePcs
  <2>3. /\ pc_src \in [current : {"NORMAL", "MISPREDICT"}, next : {"NORMAL", "MISPREDICT"}]
        /\ reg_pc_target \in [current : Pcs, next : Pcs]
        /\ reg_insts \in [current : Latches, next : Latches]
    BY DEF FrontInv, FrontTypeOK
  <2>4. emptied \in Latches /\ \A i \in 1 .. W : ~emptied[i].inst
    <3>1. reg_insts.next \in Latches
      BY <2>3
    <3>2. \A i \in 1 .. ISSUE_WIDTH :
            /\ [reg_insts.next[i] EXCEPT !.inst = FALSE]
                   \in [inst : BOOLEAN, inst_pc : Pcs, npc_pred : Pcs]
            /\ [reg_insts.next[i] EXCEPT !.inst = FALSE].inst = FALSE
      BY <3>1 DEF Latches
    <3> QED
      BY <3>2 DEF Latches, W
  <2> HIDE DEF emptied
  <2>5. /\ iq' \in IqState /\ iq'.front_next = -1 /\ iq'.rear_next = -1
    BY <2>1, TypedIq, ClearIq
  <2>6. /\ pc_src' \in [current : {"NORMAL", "MISPREDICT"}, next : {"NORMAL", "MISPREDICT"}]
        /\ reg_pc_target' \in [current : Pcs, next : Pcs]
        /\ reg_insts' \in [current : Latches, next : Latches]
        /\ pc_src'.next = "MISPREDICT" /\ reg_pc_target'.next = target
        /\ reg_insts'.next = emptied
    BY <2>1, <2>2, <2>3, <2>4
  <2>7. fetch_pc' = target /\ ~Fetching'
    BY <1>1, <2>6 DEF fetch_pc, Fetching
  <2>8. /\ fetched_pc' = onward(target) /\ decode_pc' = onward(target)
        /\ LeadsOn(reg_insts'.next, 1, onward(fetch_pc'))
    <3>1. /\ Lead(emptied, 1, onward(target)) = onward(target)
          /\ LeadsOn(emptied, 1, onward(target))
      BY <2>4, NoneLatched
    <3> QED
      BY <2>6, <2>7, <3>1 DEF fetched_pc, decode_pc
  <2>9. InQueue' = << >>
    <3>1. QueueLength(iq'.front_next, iq'.rear_next) = 0
      BY <2>5 DEF QueueLength
    <3>2. InQueue' \in Seq(Insts) /\ Len(InQueue') = 0
      BY <2>5, <3>1, InQueueIsWindow, WindowIsSequence
    <3> QED
      BY <3>2
  <2>10. PathIsUnbroken' /\ issue_pc' = onward(target)
    BY <2>7, <2>8, <2>9 DEF PathIsUnbroken, issue_pc
  <2>11. FrontTypeOK' /\ Paired'
    BY <1>1, <2>5, <2>6 DEF FrontInv, FrontTypeOK, Paired, IqState
  <2>12. Flushed
    BY <2>2, <2>4, <2>5, <2>6, <2>9, <2>10 DEF Flushed
  <2> QED
    BY <1>2, <2>10, <2>11, <2>12 DEF FrontInv
<1> QED
  BY <1>3, <1>4 DEF Commit

\* The invariant of the path is inductive.
LEMMA StepFront == FrontInv /\ [Next]_vars => FrontInv'
<1> SUFFICES ASSUME FrontInv, [Next]_vars PROVE FrontInv'
  OBVIOUS
<1>1. CASE Fetch
  BY <1>1, FetchStep
<1>2. CASE DecodeLatch
  BY <1>2, DecodeStep
<1>3. CASE Stall
  BY <1>3, StallStep
<1>4. CASE Issue
  BY <1>4, IssueStep
<1>5. CASE EndIssue
  BY <1>5, EndIssueStep
<1>6. CASE Commit
  BY <1>6, CommitStep
<1>7. CASE UpdateCurrent
  BY <1>7, UpdateCurrentStep
<1>8. CASE UNCHANGED vars
  <2>1. UNCHANGED <<fetch_unit, pc_src, reg_pc_target, reg_insts, iq, phase, index, issued>>
    BY <1>8 DEF vars
  <2>2. InQueue' = InQueue
    BY <2>1, SameQueue
  <2>3. UNCHANGED <<fetch_pc, Fetching, fetched_pc, decode_pc>>
    BY <2>1 DEF fetch_pc, Fetching, fetched_pc, decode_pc
  <2>4. PathIsUnbroken'
    BY <2>1, <2>2, <2>3 DEF FrontInv, PathIsUnbroken
  <2>5. FrontTypeOK' /\ Paired' /\ IndexInPhase' /\ CopiesAgree' /\ CursorsInStep' /\ CurrentIsKept'
    BY <2>1 DEF FrontInv, FrontTypeOK, Paired, IndexInPhase, CopiesAgree, CursorsInStep,
                CurrentIsKept
  <2> QED
    BY <2>4, <2>5 DEF FrontInv
<1> QED
  BY <1>1, <1>2, <1>3, <1>4, <1>5, <1>6, <1>7, <1>8 DEF Next

-----------------------------------------------------------------------------

(* A flush and the next fetch. *)

\* A redirection lasts from commit_clear to the next fetch_step, which cannot stall
\* because the queue is empty.
RedirectionIsTaken ==
    redirected =>
        /\ phase \in {"update", "fetch"}
        /\ iq.front_next = -1
        /\ phase = "fetch" => inst_queue_free_slots(iq)

StreamInv == FrontInv /\ RedirectionIsTaken

\* The redirection is over when the copies have been updated and fetch has read them.
LEMMA FetchTakesRedirection ==
    ASSUME FrontInv, Fetch
    PROVE  redirected' = FALSE
<1>1. /\ pc_src \in [current : {"NORMAL", "MISPREDICT"}, next : {"NORMAL", "MISPREDICT"}]
      /\ pc_src.current = pc_src.next
      /\ pc_src' = IF pc_src.current = "NORMAL" THEN pc_src ELSE [pc_src EXCEPT !.next = "NORMAL"]
  BY DEF FrontInv, FrontTypeOK, CopiesAgree, Fetch
<1>2. pc_src'.next = "NORMAL"
  BY <1>1
<1> QED
  BY <1>2 DEF redirected

\* Whatever the front end does, a redirection is taken up before anything else.
LEMMA StepRedirection ==
    ASSUME StreamInv, [Next]_vars
    PROVE  RedirectionIsTaken'
<1> USE DEF StreamInv
<1>1. CASE Fetch
  BY <1>1, FetchTakesRedirection DEF RedirectionIsTaken
<1>2. CASE Stall
  BY <1>2 DEF RedirectionIsTaken, Stall, redirected
<1>3. CASE DecodeLatch \/ Issue \/ EndIssue
  BY <1>3 DEF RedirectionIsTaken, DecodeLatch, Issue, EndIssue, redirected
<1>4. CASE Commit
  <2>1. phase' = "update" /\ phase = "commit"
    BY <1>4 DEF Commit
  <2>2. CASE Flushed
    BY <2>1, <2>2 DEF RedirectionIsTaken, Flushed
  <2>3. CASE UNCHANGED <<iq, pc_src>>
    BY <2>1, <2>3 DEF RedirectionIsTaken, redirected
  <2> QED
    BY <1>4, <2>2, <2>3, CommitStep
<1>5. CASE UpdateCurrent
  <2>1. /\ phase = "update" /\ phase' = "fetch"
        /\ pc_src' = latched(pc_src) /\ iq' = inst_queue_update_current(iq)
    BY <1>5 DEF UpdateCurrent
  <2>2. pc_src'.next = pc_src.next
    BY <2>1 DEF latched, FrontInv, FrontTypeOK
  <2>3. /\ iq'.front_next = iq.front_next
        /\ iq'.front_current = iq.front_next /\ iq'.rear_current = iq.rear_next
        /\ iq.front_next = -1 <=> iq.rear_next = -1
    BY <2>1, TypedIq, UpdateIq
  <2>4. iq.front_next = -1 => inst_queue_free_slots(iq')
    BY <2>3 DEF inst_queue_free_slots
  <2>5. inst_queue_free_slots(iq)' <=> inst_queue_free_slots(iq')
    BY DEF inst_queue_free_slots
  <2> QED
    BY <2>1, <2>2, <2>3, <2>4, <2>5 DEF RedirectionIsTaken, redirected
<1>6. CASE UNCHANGED vars
  BY <1>6 DEF RedirectionIsTaken, redirected, vars
<1> QED
  BY <1>1, <1>2, <1>3, <1>4, <1>5, <1>6 DEF Next

-----------------------------------------------------------------------------

(* Each step is one of the stream, or leaves the stream alone. *)

\* What waits, before and after a step.
LEMMA WaitingCounts ==
    /\ Fetching => waiting = (Len(InQueue) + Held(reg_insts.next, 1))
                                 + Held(reg_insts.current, index + 1)
    /\ ~Fetching => waiting = (Len(InQueue) + Held(reg_insts.next, 1)) + 0
    /\ Fetching' => waiting' = (Len(InQueue') + Held(reg_insts'.next, 1))
                                   + Held(reg_insts'.current, index' + 1)
    /\ ~Fetching' => waiting' = (Len(InQueue') + Held(reg_insts'.next, 1)) + 0
<1>1. /\ waiting = (Len(InQueue) + Held(reg_insts.next, 1))
                       + (IF Fetching THEN Held(reg_insts.current, index + 1) ELSE 0)
      /\ waiting' = (Len(InQueue') + Held(reg_insts'.next, 1))
                       + (IF Fetching' THEN Held(reg_insts'.current, index' + 1) ELSE 0)
  BY DEF waiting, Held
<1> QED
  BY <1>1, Zenon

\* Steps outside decode that leave the next copies alone leave the stream alone.
LEMMA QuietStep ==
    ASSUME ~Fetching, ~Fetching',
           UNCHANGED <<issue_pc, issued, InQueue>>,
           reg_insts'.next = reg_insts.next, reg_pc_target'.next = reg_pc_target.next,
           pc_src'.next = pc_src.next
    PROVE  UNCHANGED Stream!streamVars
<1>1. waiting' = waiting
  BY WaitingCounts
<1>2. redirected' = redirected
  BY DEF redirected
<1>3. Fetching' = Fetching
  BY DEF Fetching
<1> QED
  BY <1>1, <1>2, <1>3 DEF Stream!streamVars

\* fetch_step adds its batch to what waits, and takes up a redirection.
LEMMA FetchOfStream ==
    ASSUME FrontInv, Fetch
    PROVE  Stream!Fetch
<1>1. /\ ~Fetching /\ Fetching' /\ issue_pc' = issue_pc /\ issued' = issued
      /\ reg_pc_target'.next = reg_pc_target.next
  BY FetchStep DEF Fetch, Fetching
<1>2. /\ InQueue' = InQueue
      /\ reg_insts'.current = reg_insts.next /\ index' + 1 = 1
  <2>1. /\ reg_insts.current = reg_insts.next /\ index = 0 /\ index' = index
        /\ iq' = iq /\ reg_insts \in [current : Latches, next : Latches]
    BY DEF Fetch, FrontInv, FrontTypeOK, CopiesAgree, IndexInPhase
  <2>2. \E fetched : reg_insts' = [reg_insts EXCEPT !.next = fetched]
    BY DEF Fetch
  <2> QED
    BY <2>1, <2>2, SameQueue
<1>3. \E n \in 0 .. W : waiting' = waiting + n
  <2> DEFINE n == Held(reg_insts'.next, 1)
             queued == Len(InQueue)
             fetched == Held(reg_insts.next, 1)
  <2>1. n \in 0 .. W /\ fetched \in Nat /\ queued \in Nat
    BY HeldIsBounded, QueueType, SizesArePositive
  <2>2. waiting = (queued + fetched) + 0 /\ waiting' = (queued + n) + fetched
    BY <1>1, <1>2, WaitingCounts
  <2> HIDE DEF n, queued, fetched
  <2>3. waiting' = waiting + n
    BY <2>1, <2>2, SizesArePositive
  <2> QED
    BY <2>1, <2>3
<1>4. redirected' = FALSE
  BY FetchTakesRedirection
<1>5. Fetching' = TRUE
  BY <1>1
<1> QED
  BY <1>1, <1>3, <1>4, <1>5 DEF Stream!Fetch, W

\* decode_step moves a full latch into the queue, and nothing else: none is lost.
LEMMA DecodeOfStream ==
    ASSUME FrontInv, DecodeLatch
    PROVE  Stream!Decoded \/ UNCHANGED Stream!streamVars
<1> DEFINE queued == Len(InQueue)
           fetched == Held(reg_insts.next, 1)
           left == Held(reg_insts.current, index + 1)
           then == Held(reg_insts.current, (index + 1) + 1)
<1>1. /\ phase = "decode" /\ index + 1 \in 1 .. W
      /\ UNCHANGED <<issue_pc, issued, pc_src, reg_pc_target, reg_insts>>
      /\ \/ index + 1 < W /\ index' = index + 1 /\ phase' = phase
         \/ ~(index + 1 < W) /\ phase' = "issue"
  BY DecodeStep, DecodeGoesOn DEF DecodeLatch, W
<1>2. Fetching /\ redirected' = redirected /\ reg_pc_target'.next = reg_pc_target.next
  BY <1>1 DEF Fetching, redirected
<1>3. queued \in Nat /\ fetched \in Nat /\ left \in Nat /\ then \in Nat
  <2>1. left \in Nat /\ then \in Nat
    BY <1>1, HeldFromNext
  <2>2. fetched \in Nat /\ queued \in Nat
    BY HeldIsBounded, QueueType, SizesArePositive
  <2> QED
    BY <2>1, <2>2
<1>4. waiting = (queued + fetched) + left
  BY <1>2, WaitingCounts
<1>5. Len(InQueue') + then = queued + left /\ Len(InQueue') \in Nat
  <2>1. CASE reg_insts.current[index + 1].inst
    <3>1. left = then + 1 /\ Len(InQueue') = queued + 1
      BY <1>1, <2>1, HeldFromNext, DecodeStep
    <3> HIDE DEF left, then, queued
    <3> QED
      BY <1>3, <3>1
  <2>2. CASE ~reg_insts.current[index + 1].inst
    <3>1. left = then /\ Len(InQueue') = queued
      BY <1>1, <2>2, HeldFromNext, DecodeStep
    <3> HIDE DEF left, then, queued
    <3> QED
      BY <1>3, <3>1
  <2> QED
    BY <2>1, <2>2
<1>6. waiting' = (Len(InQueue') + fetched) + then
  <2>1. CASE phase' = "decode"
    <3>1. Fetching' /\ index' = index + 1
      BY <1>1, <2>1 DEF Fetching
    <3> QED
      BY <1>1, <3>1, WaitingCounts
  <2>2. CASE phase' = "issue"
    <3>1. ~Fetching'
      BY <2>2 DEF Fetching
    <3>2. (index + 1) + 1 = W + 1
      BY <1>1, <2>2, SizesArePositive
    <3>3. then = 0
      BY <1>1, <3>2, HeldFromNext
    <3>4. waiting' = (Len(InQueue') + fetched) + 0
      BY <1>1, <3>1, WaitingCounts
    <3> QED
      BY <3>3, <3>4
  <2> QED
    BY <1>1, <2>1, <2>2
<1> HIDE DEF queued, fetched, left, then
<1>7. waiting' = waiting
  BY <1>3, <1>4, <1>5, <1>6
<1>8. CASE phase' = "decode"
  <2>1. Fetching' = Fetching
    BY <1>1, <1>8 DEF Fetching
  <2> QED
    BY <1>1, <1>2, <1>7, <2>1 DEF Stream!streamVars
<1>9. CASE phase' = "issue"
  <2>1. Fetching' = FALSE
    BY <1>9 DEF Fetching
  <2> QED
    BY <1>1, <1>2, <1>7, <2>1 DEF Stream!Decoded
<1> QED
  BY <1>1, <1>8, <1>9

\* issue_step takes one of those that wait, the next of the path.
LEMMA IssueOfStream ==
    ASSUME StreamInv, Issue
    PROVE  Stream!Issue
<1>1. /\ ~Fetching /\ ~Fetching' /\ ~redirected /\ redirected' = redirected
      /\ UNCHANGED <<reg_pc_target, reg_insts>>
  BY DEF StreamInv, RedirectionIsTaken, Issue, Fetching, redirected
<1>2. /\ issued' \in Insts /\ issued'.inst_pc = issue_pc
      /\ issue_pc' = onward(issued'.npc_pred)
      /\ Len(InQueue) > 0 /\ Len(InQueue') = Len(InQueue) - 1
  BY IssueStep DEF StreamInv
<1>3. waiting > 0 /\ waiting' = waiting - 1
  <2> DEFINE queued == Len(InQueue)
             fetched == Held(reg_insts.next, 1)
  <2>1. queued \in Nat /\ fetched \in Nat /\ queued > 0
    BY <1>2, HeldIsBounded, QueueType, SizesArePositive DEF StreamInv
  <2>2. waiting = (queued + fetched) + 0 /\ waiting' = ((queued - 1) + fetched) + 0
    BY <1>1, <1>2, WaitingCounts
  <2> HIDE DEF queued, fetched
  <2> QED
    BY <2>1, <2>2
<1>4. Fetching' = Fetching
  BY <1>1 DEF Fetching
<1>5. reg_pc_target'.next = reg_pc_target.next
  BY <1>1
<1> QED
  BY <1>1, <1>2, <1>3, <1>4, <1>5 DEF Stream!Issue

\* commit_clear is the one step that redirects the stream.
LEMMA CommitOfStream ==
    ASSUME StreamInv, Commit
    PROVE  Stream!Redirect \/ UNCHANGED Stream!streamVars
<1>1. /\ ~Fetching /\ ~Fetching' /\ ~redirected /\ issued' = issued
  BY DEF StreamInv, RedirectionIsTaken, Commit, Fetching
<1>2. CASE Flushed
  <2>1. /\ InQueue' = << >> /\ \A i \in 1 .. W : ~reg_insts'.next[i].inst
        /\ pc_src'.next = "MISPREDICT" /\ reg_pc_target'.next \in Pcs
        /\ issue_pc' = onward(reg_pc_target'.next)
    BY <1>2 DEF Flushed
  <2>2. waiting' = 0
    <3>1. 1 \in 1 .. W + 1
      BY SizesArePositive
    <3>2. Latched(reg_insts'.next, 1) = {}
      BY <2>1, <3>1, LeadOfNone
    <3>3. Held(reg_insts'.next, 1) = 0 /\ Len(InQueue') = 0
      BY <2>1, <3>2, FS_EmptySet DEF Held
    <3>4. waiting' = (0 + 0) + 0
      BY <1>1, <3>3, WaitingCounts
    <3> QED
      BY <3>4
  <2>3. redirected' = TRUE
    BY <2>1 DEF redirected
  <2>4. Fetching' = Fetching
    BY <1>1 DEF Fetching
  <2> QED
    BY <1>1, <2>1, <2>2, <2>3, <2>4 DEF Stream!Redirect
<1>3. CASE UNCHANGED <<issue_pc, InQueue, iq, reg_pc_target, pc_src, reg_insts>>
  BY <1>1, <1>3, QuietStep
<1> QED
  BY <1>2, <1>3, CommitStep DEF StreamInv

\* The front end starts where the stream does, and nothing waits.
LEMMA InitOfStream == Init => StreamInv /\ Stream!Init
<1> SUFFICES ASSUME Init PROVE StreamInv /\ Stream!Init
  OBVIOUS
<1>1. FrontInv /\ InQueue = << >> /\ issue_pc = onward(0)
  BY InitFront
<1>2. /\ Fetching = FALSE /\ redirected = FALSE /\ issued \in Insts
      /\ reg_pc_target.next \in Pcs
  BY TargetsArePcs DEF Init, Fetching, redirected
<1>3. waiting = 0
  <2>1. \A i \in 1 .. W : ~reg_insts.next[i].inst
    BY DEF Init, W
  <2>2. 1 \in 1 .. W + 1
    BY SizesArePositive
  <2>3. Latched(reg_insts.next, 1) = {}
    BY <2>1, <2>2, LeadOfNone
  <2>4. Held(reg_insts.next, 1) = 0 /\ Len(InQueue) = 0
    BY <1>1, <2>3, FS_EmptySet DEF Held
  <2>5. waiting = (0 + 0) + 0
    BY <1>2, <2>4, WaitingCounts
  <2> QED
    BY <2>5
<1> QED
  BY <1>1, <1>2, <1>3 DEF StreamInv, RedirectionIsTaken, Stream!Init

\* Every step of the front end is one of the stream or none.
LEMMA StepOfStream ==
    ASSUME StreamInv, [Next]_vars
    PROVE  [Stream!Next]_(Stream!streamVars)
<1> USE DEF StreamInv
<1>1. CASE Fetch
  BY <1>1, FetchOfStream DEF Stream!Next
<1>2. CASE DecodeLatch
  BY <1>2, DecodeOfStream DEF Stream!Next
<1>3. CASE Stall
  <2>1. /\ ~Fetching /\ ~Fetching' /\ UNCHANGED <<issue_pc, issued, pc_src, reg_pc_target, reg_insts, iq>>
    BY <1>3, StallStep DEF Stall, Fetching
  <2> QED
    BY <2>1, SameQueue, QuietStep
<1>4. CASE Issue
  BY <1>4, IssueOfStream DEF Stream!Next
<1>5. CASE EndIssue
  <2>1. /\ ~Fetching /\ ~Fetching' /\ UNCHANGED <<issue_pc, issued, pc_src, reg_pc_target, reg_insts, iq>>
    BY <1>5, EndIssueStep DEF EndIssue, Fetching
  <2> QED
    BY <2>1, SameQueue, QuietStep
<1>6. CASE Commit
  BY <1>6, CommitOfStream DEF Stream!Next
<1>7. CASE UpdateCurrent
  <2>1. /\ ~Fetching /\ ~Fetching' /\ UNCHANGED <<issue_pc, issued>>
        /\ pc_src' = latched(pc_src) /\ reg_pc_target' = latched(reg_pc_target)
        /\ reg_insts' = latched(reg_insts) /\ iq' = inst_queue_update_current(iq)
    BY <1>7, UpdateCurrentStep DEF UpdateCurrent, Fetching
  <2>2. /\ pc_src'.next = pc_src.next /\ reg_pc_target'.next = reg_pc_target.next
        /\ reg_insts'.next = reg_insts.next
    BY <2>1 DEF latched, FrontInv, FrontTypeOK
  <2>3. InQueue' = InQueue
    BY <2>1, TypedIq, UpdateIq, SameQueue
  <2> QED
    BY <2>1, <2>2, <2>3, QuietStep
<1>8. CASE UNCHANGED vars
  <2>1. UNCHANGED <<fetch_unit, pc_src, reg_pc_target, reg_insts, iq, phase, index, issued>>
    BY <1>8 DEF vars
  <2>2. InQueue' = InQueue
    BY <2>1, SameQueue
  <2>3. UNCHANGED <<Fetching, redirected, fetch_pc, fetched_pc, decode_pc>>
    BY <2>1 DEF Fetching, redirected, fetch_pc, fetched_pc, decode_pc
  <2>4. issue_pc' = issue_pc
    BY <2>2, <2>3 DEF issue_pc
  <2>5. waiting' = waiting
    BY <2>1, <2>2 DEF waiting, Fetching
  <2> QED
    BY <2>1, <2>3, <2>4, <2>5 DEF Stream!streamVars
<1> QED
  BY <1>1, <1>2, <1>3, <1>4, <1>5, <1>6, <1>7, <1>8 DEF Next

-----------------------------------------------------------------------------

(* The theorems. *)

\* Every cycle of the front end keeps the invariant: what stays of the path in
\* inst_queue_enqueue, inst_queue_dequeue, the latches and fetch_step fits together.
THEOREM FrontInvariance == Spec => []FrontInv
<1>1. Init => FrontInv
  BY InitFront
<1>2. FrontInv /\ [Next]_vars => FrontInv'
  BY StepFront
<1> QED
  BY <1>1, <1>2, PTL DEF Spec

\* Neither cursor of inst_queue.c leaves the array, and no program counter the memory.
THEOREM FrontTypeCorrect == Spec => []FrontTypeOK
<1>1. FrontInv => FrontTypeOK
  BY DEF FrontInv
<1> QED
  BY <1>1, FrontInvariance, PTL

\* Each instruction in the queue and the latches is where the one before it was
\* predicted to lead, through stalls, wrapped batches and commit_clear.
THEOREM PathStaysUnbroken == Spec => []PathIsUnbroken
<1>1. FrontInv => PathIsUnbroken
  BY DEF FrontInv
<1> QED
  BY <1>1, FrontInvariance, PTL

\* A redirection asked for by commit_clear is taken up by the very next fetch_step:
\* no cycle stalls before it, issues an instruction or flushes again.
THEOREM StreamInvariance == Spec => []StreamInv
<1>1. Init => StreamInv
  BY InitOfStream
<1>2. StreamInv /\ [Next]_vars => StreamInv'
  BY StepFront, StepRedirection DEF StreamInv
<1> QED
  BY <1>1, <1>2, PTL DEF Spec

\* issue_step gets every instruction that fetch_step fetches, once and in the order of
\* the predicted path; only commit_clear drops them and starts another path, at its
\* target, which the next fetch_step takes up.
THEOREM FrontEndImplementsStream == Spec => ImplementsStream
<1>1. Init => Stream!Init
  BY InitOfStream
<1>2. StreamInv /\ [Next]_vars => [Stream!Next]_(Stream!streamVars)
  BY StepOfStream
<1> QED
  BY <1>1, <1>2, StreamInvariance, PTL DEF Spec, ImplementsStream, Stream!Spec
=============================================================================
