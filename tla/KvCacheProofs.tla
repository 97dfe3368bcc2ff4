--------------------------- MODULE KvCacheProofs ---------------------------
(***************************************************************************)
(* The KV cache, for every number of cells and sequences, with and without  *)
(* streams of their own, whatever batches are tried, taken back, computed or *)
(* failed: its books agree, its keys stand where its cells say, and it      *)
(* implements the store of llama.h.                                         *)
(*                                                                          *)
(* Every change of the books goes through Rewrite, so the argument is one   *)
(* lemma about Rewrite (RewriteBooks: counting the old positions of the hit *)
(* cells out and the new ones in keeps the counts exact) and, per action, that *)
(* the new contents are proper cells: positioned and owned together or not at *)
(* all, and shifted only in a flagged stream.  A restoration rewrites what a *)
(* trial saved, so the invariant says the same of the saved cells.          *)
(***************************************************************************)
EXTENDS KvCache, FiniteSetTheorems, SequenceTheorems, WellFoundedInduction, TLAPS

\* A nonempty set of integers that starts at -1 and is bounded has a greatest element.
LEMMA MaxExists ==
    ASSUME NEW S, S \subseteq -1..MaxPos, -1 \in S
    PROVE  Max(S) \in S /\ Max(S) >= -1 /\ \A y \in S : Max(S) >= y
<1> MaxPos \in Nat  BY BoundAssumption
<1> DEFINE T == {MaxPos - x : x \in S}
<1>1. T \subseteq Nat /\ T # {}
  OBVIOUS
<1> HIDE DEF T
<1>2. PICK n \in T : \A m \in T : ~ (<<m, n>> \in OpToRel(<, Nat))
  BY <1>1, WFMin, NatLessThanWellFounded
<1>3. \A m \in T : n <= m
  <2>1. \A m \in T : ~ (m < n)
    BY <1>1, <1>2, Zenon DEF OpToRel
  <2> QED  BY <2>1, <1>1
<1> USE DEF T
<1>4. PICK x \in S : n = MaxPos - x
  BY <1>3
<1>5. \A y \in S : x >= y
  <2> TAKE y \in S
  <2>1. MaxPos - y \in T  OBVIOUS
  <2>2. n <= MaxPos - y  BY <2>1, <1>3
  <2> QED  BY <2>2, <1>4
<1>6. Max(S) \in S /\ \A y \in S : Max(S) >= y
  BY <1>5 DEF Max
<1> QED  BY <1>6

\* seq_pos_max is a position or -1, so that a batch starts at a natural position.
LEMMA PosMaxType ==
    ASSUME NEW st, NEW s
    PROVE  PosMax(st, s) \in Int /\ PosMax(st, s) >= -1
<1> MaxPos \in Nat  BY BoundAssumption
<1> DEFINE S == {-1} \cup {p \in Positions : count[st][s][p] > 0}
<1>1. S \subseteq -1..MaxPos /\ -1 \in S
  BY DEF Positions
<1> HIDE DEF S
<1>2. Max(S) \in S /\ Max(S) >= -1
  BY <1>1, MaxExists
<1>3. \A x \in -1..MaxPos : x \in Int  OBVIOUS
<1>4. Max(S) \in Int  BY <1>1, <1>2, <1>3
<1> QED  BY <1>2, <1>4 DEF PosMax, S

-----------------------------------------------------------------------------
\* a cell has a position and a sequence together or not at all
GoodCell == {c \in [id : Nat, pos : Nat \cup {-1}, shift : Int, seq : SUBSET Seqs,
                    divided : BOOLEAN] : c.pos = -1 <=> c.seq = {}}

CellsOK == cells \in [Seqs -> [Idx -> GoodCell]]
UsedOK  == used = [st \in Seqs |-> {i \in Idx : cells[st][i].pos # -1}]
Occurs(st, s, p) == {i \in Idx : Holds(cells[st][i], s, p)}
CountOK == count = [st \in Seqs |-> [s \in Seqs |-> [p \in Positions |->
                       Cardinality(Occurs(st, s, p))]]]
ShiftsOK == \A st \in Seqs, i \in Idx : cells[st][i].shift # 0 => hasShift[st]

BooksOK == CellsOK /\ UsedOK /\ CountOK

\* new contents for some cells of each stream
Contents(new) == \A st \in Seqs : /\ DOMAIN new[st] \subseteq Idx
                                  /\ \A i \in DOMAIN new[st] : new[st][i] \in GoodCell

LEMMA IdxFinite == IsFiniteSet(Idx)
  BY FS_Interval, SizeAssumption DEF Idx

\* what a rewrite leaves in each cell
LEMMA RewriteCells ==
    ASSUME CellsOK, NEW new, Contents(new), Rewrite(new)
    PROVE  /\ CellsOK'
           /\ \A st \in Seqs, i \in Idx :
                cells'[st][i] = IF i \in DOMAIN new[st] THEN new[st][i] ELSE cells[st][i]
  BY DEF CellsOK, Contents, Rewrite

\* a rewrite keeps used and seq_pos exact
LEMMA RewriteBooks ==
    ASSUME BooksOK, NEW new, Contents(new), Rewrite(new)
    PROVE  BooksOK'
<1>1. CellsOK'
  BY RewriteCells DEF BooksOK
<1>2. \A st \in Seqs, i \in Idx :
         cells'[st][i] = IF i \in DOMAIN new[st] THEN new[st][i] ELSE cells[st][i]
  BY RewriteCells DEF BooksOK
<1>3. UsedOK'
  <2>1. \A st \in Seqs : {i \in Idx : IF i \in DOMAIN new[st] THEN cells'[st][i].pos # -1
                                                              ELSE i \in used[st]}
                         = {i \in Idx : cells'[st][i].pos # -1}
    BY <1>2 DEF BooksOK, UsedOK
  <2> QED  BY <2>1 DEF Rewrite, UsedOK
<1>4. CountOK'
  <2>1. ASSUME NEW st \in Seqs, NEW s \in Seqs, NEW p \in Positions
        PROVE  count[st][s][p] - Cardinality({i \in DOMAIN new[st] : Holds(cells[st][i], s, p)})
                   + Cardinality({i \in DOMAIN new[st] : Holds(cells'[st][i], s, p)})
               = Cardinality({i \in Idx : Holds(cells'[st][i], s, p)})
    <3> DEFINE H == DOMAIN new[st]
               A == Occurs(st, s, p)
               B == {i \in H : Holds(cells[st][i], s, p)}
               C == {i \in H : Holds(cells'[st][i], s, p)}
               N == {i \in Idx : Holds(cells'[st][i], s, p)}
    <3>1. H \subseteq Idx
      BY DEF Contents
    <3>2. IsFiniteSet(A) /\ IsFiniteSet(B) /\ IsFiniteSet(C) /\ IsFiniteSet(A \ B)
      BY <3>1, IdxFinite, FS_Subset DEF Occurs
    <3>3. A = (A \ B) \cup B /\ (A \ B) \cap B = {}
      BY <3>1 DEF Occurs
    <3>4. N = (A \ B) \cup C
      BY <3>1, <1>2 DEF Occurs
    <3>5. (A \ B) \cap C = {}
      BY DEF Occurs
    <3>6. count[st][s][p] = Cardinality(A)
      BY DEF BooksOK, CountOK
    <3> HIDE DEF A, B, C, N
    <3>7. Cardinality(A) = Cardinality(A \ B) + Cardinality(B) - 0
      BY <3>2, <3>3, FS_Union, FS_EmptySet
    <3>8. Cardinality(N) = Cardinality(A \ B) + Cardinality(C) - 0
      BY <3>2, <3>4, <3>5, FS_Union, FS_EmptySet
    <3>9. Cardinality(A \ B) \in Nat /\ Cardinality(B) \in Nat /\ Cardinality(C) \in Nat
      BY <3>2, FS_CardinalityType
    <3>10. count[st][s][p] - Cardinality(B) + Cardinality(C) = Cardinality(N)
      BY <3>6, <3>7, <3>8, <3>9
    <3> QED  BY <3>10 DEF B, C, N
  <2>2. count' = [st \in Seqs |-> [s \in Seqs |-> [p \in Positions |->
          count[st][s][p] - Cardinality({i \in DOMAIN new[st] : Holds(cells[st][i], s, p)})
                          + Cardinality({i \in DOMAIN new[st] : Holds(cells'[st][i], s, p)})]]]
    BY DEF Rewrite
  <2> QED  BY <2>1, <2>2 DEF CountOK, Occurs
<1> QED  BY <1>1, <1>3, <1>4 DEF BooksOK

-----------------------------------------------------------------------------
IsSeq(q) == Len(q) \in Nat /\ q = [k \in 1..Len(q) |-> q[k]]

\* an entry of the trial placement: what a micro-batch writes and what it overwrote
EntryOK(e, flags) ==
    /\ e.group \in Groups
    /\ Contents(e.new) /\ Contents(e.old)
    /\ \A st \in Seqs : /\ \A i \in DOMAIN e.new[st] : e.new[st][i].shift = 0
                        /\ \A i \in DOMAIN e.old[st] : e.old[st][i].shift # 0 => flags[st]

BatchOK ==
    /\ batch \in [phase : {"none", "update", "prepare", "restore", "run"}, stack : {batch.stack},
                  at : Nat, placed : BOOLEAN, origin : {batch.origin}]
    /\ IsSeq(batch.stack)
    /\ \A k \in 1..Len(batch.stack) : EntryOK(batch.stack[k], hasShift)
    /\ batch.phase \in {"none", "update"} => Len(batch.stack) = 0
    /\ batch.phase \in {"update", "prepare"} => batch.placed
    /\ batch.phase = "restore" => batch.at <= Len(batch.stack)
    /\ batch.phase = "restore" /\ batch.placed => Len(batch.stack) > 0
    /\ batch.phase = "run" => batch.at \in 1..Len(batch.stack)

Inv ==
    /\ unified \in BOOLEAN
    /\ tokens \in Nat
    /\ hasShift \in [Seqs -> BOOLEAN]
    /\ BooksOK
    /\ ShiftsOK
    /\ BatchOK

LEMMA AppendIsSeq ==
    ASSUME NEW q, IsSeq(q), NEW e
    PROVE  /\ IsSeq(Append(q, e))
           /\ Len(Append(q, e)) = Len(q) + 1
           /\ \A k \in 1..Len(q) : Append(q, e)[k] = q[k]
           /\ Append(q, e)[Len(q) + 1] = e
<1> DEFINE S == {q[k] : k \in 1..Len(q)} \cup {e}
<1>1. q \in Seq(S) /\ e \in S
  BY DEF IsSeq
<1> HIDE DEF S
<1>2. Append(q, e) \in Seq(S)
  BY <1>1
<1>3. Len(Append(q, e)) = Len(q) + 1
  BY <1>1
<1>4. \A k \in 1..Len(q) : Append(q, e)[k] = q[k]
  BY <1>1
<1>5. Append(q, e)[Len(q) + 1] = e
  BY <1>1
<1>6. IsSeq(Append(q, e))
  BY <1>2, LenProperties DEF IsSeq
<1> QED  BY <1>3, <1>4, <1>5, <1>6

LEMMA ZeroSeq == 0 \in Seqs
<1>1. Cardinality(Seqs) \in Nat
  BY SeqsAssumption, FS_CardinalityType
<1> QED  BY <1>1, SeqsAssumption

LEMMA StreamType == ASSUME NEW s \in Seqs PROVE StreamOf(s) \in Seqs
  BY ZeroSeq DEF StreamOf

LEMMA EmptyGood == Empty \in GoodCell
  BY DEF Empty, GoodCell

LEMMA LessGood ==
    ASSUME NEW c \in GoodCell, NEW s
    PROVE  Less(c, s) \in GoodCell /\ (Less(c, s).shift # 0 => c.shift # 0)
<1>1. CASE c.seq \subseteq {s}
  BY <1>1, EmptyGood DEF Less, Empty
<1>2. CASE ~ (c.seq \subseteq {s})
  <2>1. c.seq \ {s} # {}
    BY <1>2
  <2>2. Less(c, s) = [c EXCEPT !.seq = @ \ {s}]
    BY <1>2 DEF Less
  <2> QED  BY <2>1, <2>2 DEF GoodCell
<1> QED  BY <1>1, <1>2

LEMMA MovedGood ==
    ASSUME NEW c \in GoodCell, c.pos # -1, NEW pos \in Nat, NEW shift \in Int
    PROVE  /\ [c EXCEPT !.pos = pos, !.shift = shift] \in GoodCell
           /\ [c EXCEPT !.pos = pos, !.shift = shift, !.divided = TRUE] \in GoodCell
<1> DEFINE R == [id : Nat, pos : Nat \cup {-1}, shift : Int, seq : SUBSET Seqs, divided : BOOLEAN]
           d == [c EXCEPT !.pos = pos, !.shift = shift]
           e == [c EXCEPT !.pos = pos, !.shift = shift, !.divided = TRUE]
<1>1. c \in R /\ c.seq # {}
  BY DEF GoodCell
<1>2. d \in R /\ e \in R
  BY <1>1
<1>3. d.pos = pos /\ d.seq = c.seq /\ e.pos = pos /\ e.seq = c.seq
  BY <1>1
<1> HIDE DEF d, e
<1>4. d \in GoodCell /\ e \in GoodCell
  BY <1>1, <1>2, <1>3 DEF GoodCell
<1> QED  BY <1>4 DEF d, e

LEMMA AddGood ==
    ASSUME NEW p0 \in Nat, NEW delta \in Int, NEW c \in GoodCell, c.pos >= p0
    PROVE  Moved(c, delta) \in GoodCell
<1>1. CASE c.pos + delta < 0
  BY <1>1, EmptyGood DEF Moved
<1>2. ASSUME ~ (c.pos + delta < 0), c.pos >= p0
      PROVE  Moved(c, delta) \in GoodCell
  <2>1. c.pos \in Nat /\ c.pos # -1 /\ c.pos + delta \in Nat /\ c.shift + delta \in Int
    BY <1>2 DEF GoodCell
  <2>2. [c EXCEPT !.pos = @ + delta, !.shift = @ + delta] \in GoodCell
    BY <2>1, MovedGood
  <2> QED  BY <1>2, <2>2 DEF Moved
<1> QED  BY <1>1, <1>2

LEMMA DivGood ==
    ASSUME NEW p0 \in Nat, NEW by \in Nat \ {0}, NEW c \in GoodCell, c.pos >= p0
    PROVE  Divided(c, by) \in GoodCell
<1> DEFINE pos == c.pos \div by
           shift == c.shift + (c.pos - pos)
<1>1. \A n \in Nat : n \div by \in Nat
  OBVIOUS
<1>2. c.pos \in Nat /\ c.pos # -1
  BY DEF GoodCell
<1>3. pos \in Nat /\ shift \in Int
  BY <1>1, <1>2 DEF GoodCell
<1> HIDE DEF pos, shift
<1>4. [c EXCEPT !.pos = pos, !.shift = shift, !.divided = TRUE] \in GoodCell
  BY <1>2, <1>3, MovedGood
<1>5. Divided(c, by) = [c EXCEPT !.pos = pos, !.shift = shift, !.divided = TRUE]
  BY DEF Divided, pos, shift, GoodCell
<1> QED  BY <1>4, <1>5

LEMMA HitType ==
    ASSUME CellsOK, NEW st \in Seqs, NEW s, NEW p0, NEW p1
    PROVE  Hit(st, s, p0, p1) \subseteq Idx /\ \A i \in Hit(st, s, p0, p1) : cells[st][i] \in GoodCell
  BY DEF Hit, CellsOK

LEMMA InitInv == Init => Inv
<1> SUFFICES ASSUME Init PROVE Inv
  OBVIOUS
<1>1. BooksOK
  <2>1. CellsOK /\ UsedOK
    BY EmptyGood DEF Init, CellsOK, UsedOK, Empty
  <2>2. \A st \in Seqs, s \in Seqs, p \in Positions : Occurs(st, s, p) = {}
    BY DEF Init, Occurs, Holds, Empty
  <2>3. CountOK
    BY <2>2, FS_EmptySet DEF Init, CountOK
  <2> QED  BY <2>1, <2>3 DEF BooksOK
<1>2. ShiftsOK
  BY DEF Init, ShiftsOK, Empty
<1>3. BatchOK
  BY DEF Init, BatchOK, NoBatch, IsSeq
<1> QED  BY <1>1, <1>2, <1>3 DEF Init, Inv

\* while nothing is on trial the batch is not the concern of a step that leaves it alone
LEMMA BatchKept ==
    ASSUME BatchOK, batch' = batch, batch.phase \in {"none", "update"}
    PROVE  BatchOK'
  BY DEF BatchOK

\* a rewrite keeps the shifts flagged if its new contents' are
LEMMA ShiftsKept ==
    ASSUME NEW new, CellsOK, Contents(new), Rewrite(new), ShiftsOK,
           \A st \in Seqs : hasShift[st] => hasShift'[st],
           \A st \in Seqs : \A i \in DOMAIN new[st] : new[st][i].shift # 0 => hasShift'[st]
    PROVE  ShiftsOK'
<1>1. \A st \in Seqs, i \in Idx :
         cells'[st][i] = IF i \in DOMAIN new[st] THEN new[st][i] ELSE cells[st][i]
  BY RewriteCells
<1> QED  BY <1>1 DEF ShiftsOK

LEMMA ClearStep == ASSUME Inv, Clear PROVE Inv'
<1>1. BooksOK'
  <2>1. CellsOK' /\ UsedOK'
    BY EmptyGood DEF Clear, CellsOK, UsedOK, Empty
  <2>2. \A st \in Seqs, s \in Seqs, p \in Positions : Occurs(st, s, p)' = {}
    BY DEF Clear, Occurs, Holds, Empty
  <2>3. CountOK'
    BY <2>2, FS_EmptySet DEF Clear, CountOK
  <2> QED  BY <2>1, <2>3 DEF BooksOK
<1>2. ShiftsOK'
  BY DEF Clear, ShiftsOK, Empty
<1>3. BatchOK'
  BY BatchKept DEF Inv, Clear, Quiet, CallDone
<1> QED  BY <1>1, <1>2, <1>3 DEF Clear, CallDone, Inv

LEMMA SeqRmStep ==
    ASSUME Inv, NEW s \in Seqs, NEW p0, NEW p1, SeqRm(s, p0, p1) PROVE Inv'
<1> DEFINE st == StreamOf(s)
           hit == Hit(st, s, p0, p1)
           new == [x \in Seqs |-> [i \in (IF x = st THEN hit ELSE {}) |-> Less(cells[x][i], s)]]
<1>1. Contents(new)
  BY StreamType, HitType, LessGood DEF Contents, Inv, BooksOK
<1>2. Rewrite(new)
  BY DEF SeqRm, RewriteStream
<1>3. \A x \in Seqs : \A i \in DOMAIN new[x] : new[x][i].shift # 0 => hasShift'[x]
  BY StreamType, HitType, LessGood DEF Inv, BooksOK, ShiftsOK, SeqRm
<1>4. \A x \in Seqs : hasShift[x] => hasShift'[x]
  BY DEF SeqRm
<1> HIDE DEF new
<1>5. BooksOK' /\ ShiftsOK'
  BY <1>1, <1>2, <1>3, <1>4, RewriteBooks, ShiftsKept DEF Inv, BooksOK
<1>6. BatchOK'
  BY BatchKept DEF Inv, SeqRm, Quiet, CallDone
<1> QED  BY <1>5, <1>6 DEF SeqRm, CallDone, Inv

LEMMA SeqRmAnyStep ==
    ASSUME Inv, NEW p0, NEW p1, SeqRmAny(p0, p1) PROVE Inv'
<1> DEFINE hit == [st \in Seqs |-> {i \in Idx : InRange(cells[st][i], p0, p1)}]
           new == [st \in Seqs |-> [i \in hit[st] |-> Empty]]
<1>1. Contents(new)
  BY EmptyGood DEF Contents
<1>2. Rewrite(new)
  BY DEF SeqRmAny
<1>3. \A x \in Seqs : \A i \in DOMAIN new[x] : new[x][i].shift # 0 => hasShift'[x]
  BY DEF Empty
<1>4. \A x \in Seqs : hasShift[x] => hasShift'[x]
  BY DEF SeqRmAny
<1> HIDE DEF new
<1>5. BooksOK' /\ ShiftsOK'
  BY <1>1, <1>2, <1>3, <1>4, RewriteBooks, ShiftsKept DEF Inv, BooksOK
<1>6. BatchOK'
  BY BatchKept DEF Inv, SeqRmAny, Quiet, CallDone
<1> QED  BY <1>5, <1>6 DEF SeqRmAny, CallDone, Inv

LEMMA SeqCpShareStep ==
    ASSUME Inv, NEW s \in Seqs, NEW d \in Seqs, NEW p0, NEW p1, SeqCpShare(s, d, p0, p1) PROVE Inv'
<1> DEFINE st == StreamOf(s)
           hit == Hit(st, s, p0, p1)
           new == [x \in Seqs |-> [i \in (IF x = st THEN hit ELSE {}) |->
                                      [cells[x][i] EXCEPT !.seq = @ \cup {d}]]]
<1>1. Contents(new)
  <2>1. \A c \in GoodCell : s \in c.seq => [c EXCEPT !.seq = @ \cup {d}] \in GoodCell
    BY DEF GoodCell
  <2>2. \A i \in hit : s \in cells[st][i].seq
    BY DEF Hit
  <2> QED  BY <2>1, <2>2, StreamType, HitType DEF Contents, Inv, BooksOK
<1>2. Rewrite(new)
  BY DEF SeqCpShare, RewriteStream
<1>3. \A x \in Seqs : \A i \in DOMAIN new[x] : new[x][i].shift # 0 => hasShift'[x]
  <2>1. \A c \in GoodCell : [c EXCEPT !.seq = @ \cup {d}].shift = c.shift
    BY DEF GoodCell
  <2> QED  BY <2>1, StreamType, HitType DEF Inv, BooksOK, ShiftsOK, SeqCpShare
<1>4. \A x \in Seqs : hasShift[x] => hasShift'[x]
  BY DEF SeqCpShare
<1> HIDE DEF new
<1>5. BooksOK' /\ ShiftsOK'
  BY <1>1, <1>2, <1>3, <1>4, RewriteBooks, ShiftsKept DEF Inv, BooksOK
<1>6. BatchOK'
  BY BatchKept DEF Inv, SeqCpShare, Quiet, CallDone
<1> QED  BY <1>5, <1>6 DEF SeqCpShare, CallDone, Inv

LEMMA SeqCpStreamStep ==
    ASSUME Inv, NEW s \in Seqs, NEW d \in Seqs, SeqCpStream(s, d) PROVE Inv'
<1> DEFINE from == cells[s]
           src == {i \in Idx : s \in from[i].seq}
           new == [st \in Seqs |-> [i \in (IF st = d THEN Idx ELSE {}) |->
                     IF i \in src THEN [from[i] EXCEPT !.seq = {d}] ELSE Empty]]
<1>0. \A i \in src : [from[i] EXCEPT !.seq = {d}] \in GoodCell
                     /\ [from[i] EXCEPT !.seq = {d}].shift = from[i].shift
  <2>1. \A c \in GoodCell : s \in c.seq => /\ [c EXCEPT !.seq = {d}] \in GoodCell
                                           /\ [c EXCEPT !.seq = {d}].shift = c.shift
    BY DEF GoodCell
  <2>2. \A i \in src : from[i] \in GoodCell /\ s \in from[i].seq
    BY DEF Inv, BooksOK, CellsOK
  <2> QED  BY <2>1, <2>2
<1>1. Contents(new)
  BY <1>0, EmptyGood DEF Contents
<1>2. Rewrite(new)
  BY DEF SeqCpStream
<1>3. hasShift' = [hasShift EXCEPT ![d] = \E i \in src : from[i].shift # 0]
  BY DEF SeqCpStream
<1>4. ASSUME NEW x \in Seqs, NEW i \in DOMAIN new[x], new[x][i].shift # 0
      PROVE  hasShift'[x]
  <2>1. x = d /\ i \in Idx
    BY <1>4
  <2>2. i \in src
    BY <1>4, <2>1 DEF Empty
  <2>3. from[i].shift # 0
    BY <1>4, <2>1, <2>2, <1>0
  <2> QED  BY <2>1, <2>2, <2>3, <1>3 DEF Inv
<1>5. ShiftsOK'
  <2>1. \A x \in Seqs, i \in Idx :
           cells'[x][i] = IF i \in DOMAIN new[x] THEN new[x][i] ELSE cells[x][i]
    BY <1>1, <1>2, RewriteCells DEF Inv, BooksOK
  <2>2. \A x \in Seqs : x # d => hasShift'[x] = hasShift[x]
    BY <1>3 DEF Inv
  <2> SUFFICES ASSUME NEW x \in Seqs, NEW i \in Idx, cells'[x][i].shift # 0 PROVE hasShift'[x]
    BY DEF ShiftsOK
  <2>3. CASE x = d
    BY ZenonT(40), <2>1, <2>3, <1>4
  <2>4. CASE x # d
    <3>1. cells'[x][i] = cells[x][i]
      BY <2>1, <2>4
    <3> QED  BY <3>1, <2>2, <2>4 DEF Inv, ShiftsOK
  <2> QED  BY <2>3, <2>4
<1>6. hasShift' \in [Seqs -> BOOLEAN]
  BY <1>3 DEF Inv
<1> HIDE DEF new
<1>7. BooksOK'
  BY <1>1, <1>2, RewriteBooks DEF Inv
<1>8. BatchOK'
  BY BatchKept DEF Inv, SeqCpStream, Quiet, CallDone
<1> QED  BY <1>5, <1>6, <1>7, <1>8 DEF SeqCpStream, CallDone, Inv

LEMMA SeqKeepStep ==
    ASSUME Inv, NEW s \in Seqs, SeqKeep(s) PROVE Inv'
<1> DEFINE st == StreamOf(s)
           keep(c) == IF s \in c.seq THEN [c EXCEPT !.seq = {s}] ELSE Empty
           new == [x \in Seqs |-> [i \in (IF x = st THEN used[st] ELSE {}) |-> keep(cells[x][i])]]
<1>0. \A c \in GoodCell : keep(c) \in GoodCell /\ (keep(c).shift # 0 => c.shift # 0)
  <2> TAKE c \in GoodCell
  <2>1. CASE s \in c.seq
    BY <2>1 DEF GoodCell
  <2>2. CASE s \notin c.seq
    BY <2>2, EmptyGood DEF Empty
  <2> QED  BY <2>1, <2>2
<1>a. used[st] \subseteq Idx /\ \A x \in Seqs, i \in Idx : cells[x][i] \in GoodCell
  BY StreamType DEF Inv, BooksOK, UsedOK, CellsOK
<1>1. Contents(new)
  BY <1>0, <1>a DEF Contents
<1>2. Rewrite(new)
  BY DEF SeqKeep, RewriteStream
<1>3. \A x \in Seqs : \A i \in DOMAIN new[x] : new[x][i].shift # 0 => hasShift'[x]
  BY <1>0, <1>a DEF Inv, ShiftsOK, SeqKeep
<1>4. \A x \in Seqs : hasShift[x] => hasShift'[x]
  BY DEF SeqKeep
<1> HIDE DEF new
<1>5. BooksOK' /\ ShiftsOK'
  BY <1>1, <1>2, <1>3, <1>4, RewriteBooks, ShiftsKept DEF Inv, BooksOK
<1>6. BatchOK'
  BY BatchKept DEF Inv, SeqKeep, Quiet, CallDone
<1> QED  BY <1>5, <1>6 DEF SeqKeep, CallDone, Inv

LEMMA SeqAddStep ==
    ASSUME Inv, NEW s \in Seqs, NEW p0 \in Nat, NEW p1, NEW delta \in Int, SeqAdd(s, p0, p1, delta)
    PROVE  Inv'
<1> DEFINE st == StreamOf(s)
           hit == Hit(st, s, p0, p1)
           new == [x \in Seqs |-> [i \in (IF x = st THEN hit ELSE {}) |-> Moved(cells[x][i], delta)]]
<1>a. \A i \in hit : cells[st][i].pos >= p0
  BY DEF Hit, InRange
<1>1. Contents(new)
  BY AddGood, <1>a, StreamType, HitType DEF Contents, Inv, BooksOK
<1>2. Rewrite(new)
  BY DEF SeqAdd, RewriteStream
<1>3. hasShift' = [hasShift EXCEPT ![st] = @ \/ hit # {}]
  BY DEF SeqAdd
<1>4. \A x \in Seqs : \A i \in DOMAIN new[x] : new[x][i].shift # 0 => hasShift'[x]
  BY <1>3, StreamType DEF Inv
<1>5. \A x \in Seqs : hasShift[x] => hasShift'[x]
  BY <1>3 DEF Inv
<1>6. hasShift' \in [Seqs -> BOOLEAN]
  BY <1>3 DEF Inv
<1> HIDE DEF new
<1>7. BooksOK' /\ ShiftsOK'
  BY <1>1, <1>2, <1>4, <1>5, RewriteBooks, ShiftsKept DEF Inv, BooksOK
<1>8. BatchOK'
  BY BatchKept DEF Inv, SeqAdd, Quiet, CallDone
<1> QED  BY <1>6, <1>7, <1>8 DEF SeqAdd, CallDone, Inv

LEMMA SeqDivStep ==
    ASSUME Inv, NEW s \in Seqs, NEW p0 \in Nat, NEW p1, NEW by \in Nat \ {0}, SeqDiv(s, p0, p1, by)
    PROVE  Inv'
<1> DEFINE st == StreamOf(s)
           hit == Hit(st, s, p0, p1)
           new == [x \in Seqs |-> [i \in (IF x = st THEN hit ELSE {}) |-> Divided(cells[x][i], by)]]
<1>a. \A i \in hit : cells[st][i].pos >= p0
  BY DEF Hit, InRange
<1>1. Contents(new)
  BY DivGood, <1>a, StreamType, HitType DEF Contents, Inv, BooksOK
<1>2. Rewrite(new)
  BY DEF SeqDiv, RewriteStream
<1>3. hasShift' = [hasShift EXCEPT ![st] = @ \/ hit # {}]
  BY DEF SeqDiv
<1>4. \A x \in Seqs : \A i \in DOMAIN new[x] : new[x][i].shift # 0 => hasShift'[x]
  BY <1>3, StreamType DEF Inv
<1>5. \A x \in Seqs : hasShift[x] => hasShift'[x]
  BY <1>3 DEF Inv
<1>6. hasShift' \in [Seqs -> BOOLEAN]
  BY <1>3 DEF Inv
<1> HIDE DEF new
<1>7. BooksOK' /\ ShiftsOK'
  BY <1>1, <1>2, <1>4, <1>5, RewriteBooks, ShiftsKept DEF Inv, BooksOK
<1>8. BatchOK'
  BY BatchKept DEF Inv, SeqDiv, Quiet, CallDone
<1> QED  BY <1>6, <1>7, <1>8 DEF SeqDiv, CallDone, Inv

-----------------------------------------------------------------------------
LEMMA NoBatchOK == batch' = NoBatch => BatchOK'
<1>1. IsSeq(<<>>) /\ Len(<<>>) = 0
  BY DEF IsSeq
<1> QED  BY <1>1 DEF NoBatch, BatchOK

LEMMA UpdateSteps ==
    ASSUME Inv, DecodeStart \/ CopyStream \/ UpdateEnd
    PROVE  Inv'
<1>1. BatchOK'
  <2>1. CASE DecodeStart
    <3>1. batch' = [phase |-> "update", stack |-> <<>>, at |-> 0, placed |-> TRUE, origin |-> <<>>]
      BY <2>1 DEF DecodeStart, NoBatch
    <3>2. IsSeq(<<>>) /\ Len(<<>>) = 0
      BY DEF IsSeq
    <3> QED  BY <3>1, <3>2 DEF BatchOK
  <2>2. CASE CopyStream
    BY <2>2, BatchKept DEF CopyStream, Inv
  <2>3. CASE UpdateEnd
    <3>1. batch' = [batch EXCEPT !.phase = "prepare", !.origin = cells]
          /\ batch.phase = "update" /\ hasShift' = hasShift
      BY <2>3 DEF UpdateEnd, books
    <3>2. /\ batch'.phase = "prepare" /\ batch'.stack = batch.stack /\ batch'.at = batch.at
          /\ batch'.placed = batch.placed
      BY <3>1 DEF Inv, BatchOK
    <3>3. batch' \in [phase : {"none", "update", "prepare", "restore", "run"}, stack : {batch'.stack},
                      at : Nat, placed : BOOLEAN, origin : {batch'.origin}]
      BY <3>1 DEF Inv, BatchOK
    <3>4. IsSeq(batch'.stack) /\ Len(batch'.stack) = 0
      BY <3>1, <3>2 DEF Inv, BatchOK
    <3>5. batch'.placed
      BY <3>1, <3>2 DEF Inv, BatchOK
    <3>6. \A k \in 1..Len(batch'.stack) : EntryOK(batch'.stack[k], hasShift')
      BY <3>4
    <3> HIDE DEF Inv
    <3> QED  BY <3>2, <3>3, <3>4, <3>5, <3>6 DEF BatchOK
  <2> QED  BY <2>1, <2>2, <2>3
<1>2. UNCHANGED <<unified, cells, used, count, hasShift, tokens>>
  BY DEF DecodeStart, CopyStream, UpdateEnd, books, meta
<1>3. BooksOK' /\ ShiftsOK'
  BY <1>2 DEF Inv, BooksOK, CellsOK, UsedOK, CountOK, Occurs, ShiftsOK
<1> QED  BY <1>1, <1>2, <1>3 DEF Inv

LEMMA ApplyShiftStep == ASSUME Inv, ApplyShift PROVE Inv'
<1>1. \A c \in GoodCell : /\ [c EXCEPT !.shift = 0] \in GoodCell
                          /\ [c EXCEPT !.shift = 0].shift = 0
                          /\ [c EXCEPT !.shift = 0].pos = c.pos
                          /\ [c EXCEPT !.shift = 0].seq = c.seq
  BY DEF GoodCell
<1>2. \A st \in Seqs, i \in Idx :
         /\ cells[st][i] \in GoodCell
         /\ cells'[st][i] = [cells[st][i] EXCEPT !.shift = 0]
  BY DEF ApplyShift, Inv, BooksOK, CellsOK
<1>3. CellsOK'
  BY <1>1 DEF ApplyShift, Inv, BooksOK, CellsOK
<1>4. UsedOK'
  <2>1. \A st \in Seqs : {i \in Idx : cells[st][i].pos # -1} = {i \in Idx : cells'[st][i].pos # -1}
    BY <1>1, <1>2
  <2> QED  BY <2>1 DEF Inv, BooksOK, UsedOK, ApplyShift
<1>5. CountOK'
  <2>1. \A st \in Seqs, s \in Seqs, p \in Positions : Occurs(st, s, p)' = Occurs(st, s, p)
    BY <1>1, <1>2 DEF Occurs, Holds
  <2> QED  BY <2>1 DEF Inv, BooksOK, CountOK, ApplyShift
<1>6. ShiftsOK'
  <2>1. ASSUME NEW st \in Seqs, NEW i \in Idx PROVE cells'[st][i].shift = 0
    <3>1. cells[st][i] \in GoodCell /\ cells'[st][i] = [cells[st][i] EXCEPT !.shift = 0]
      BY <1>2
    <3> QED  BY <3>1, <1>1
  <2> QED  BY <2>1 DEF ShiftsOK
<1>7. BatchOK'
  BY BatchKept DEF ApplyShift, Inv
<1>8. hasShift' \in [Seqs -> BOOLEAN]
  BY DEF ApplyShift
<1> QED  BY <1>3, <1>4, <1>5, <1>6, <1>7, <1>8 DEF ApplyShift, Inv, BooksOK

-----------------------------------------------------------------------------
\* apply_ubatch fills empty cells with proper contents and no pending shift
LEMMA PlacementGood ==
    ASSUME Inv, NEW group \in Groups, NEW n \in Nat
    PROVE  /\ Contents(Placement(group, n))
           /\ \A st \in Seqs : \A i \in DOMAIN Placement(group, n)[st] :
                 Placement(group, n)[st][i].shift = 0
<1> DEFINE new == Placement(group, n)
           cell(st, i) == [id |-> tokens + 1 + Order(st, n, i), pos |-> FirstPos(group, st) + Order(st, n, i),
                           shift |-> 0, seq |-> LaneSeqs(group, st), divided |-> FALSE]
<1>1. \A st \in Seqs, i \in Idx : Order(st, n, i) \in Nat
  <2> TAKE st \in Seqs, i \in Idx
  <2> DEFINE before == {j \in EmptyCells(st) : Distance(j, SearchFrom(st, n)) < Distance(i, SearchFrom(st, n))}
  <2>1. before \in SUBSET Idx
    BY DEF EmptyCells
  <2>2. Cardinality(before) \in Nat
    BY <2>1, IdxFinite, FS_Subset, FS_CardinalityType
  <2> QED  BY <2>2 DEF Order
<1>2. \A st \in Seqs : FirstPos(group, st) \in Nat
  BY PosMaxType DEF FirstPos
<1>3. group \subseteq Seqs /\ group # {}
  BY GroupAssumption
<1>4. \A st \in Lanes(group) : LaneSeqs(group, st) # {} /\ LaneSeqs(group, st) \in SUBSET Seqs
  BY <1>3 DEF Lanes, LaneSeqs
<1>5. \A st \in Seqs : Slot(st, n) \subseteq Idx
  BY DEF Slot, EmptyCells
<1>6. \A st \in Seqs, i \in Idx : st \in Lanes(group) => cell(st, i) \in GoodCell
  <2> TAKE st \in Seqs, i \in Idx
  <2> HAVE st \in Lanes(group)
  <2>1. Order(st, n, i) \in Nat /\ FirstPos(group, st) \in Nat /\ tokens \in Nat
    BY <1>1, <1>2 DEF Inv
  <2> QED  BY <2>1, <1>4 DEF GoodCell
<1>7. \A st \in Seqs : DOMAIN new[st] = IF st \in Lanes(group) THEN Slot(st, n) ELSE {}
  BY DEF Placement
<1>8. \A st \in Seqs : \A i \in DOMAIN new[st] : new[st][i] = cell(st, i)
  BY DEF Placement
<1>9. \A st \in Seqs, i \in Idx : cell(st, i).shift = 0
  OBVIOUS
<1> HIDE DEF new, cell
<1>10. \A st \in Seqs : DOMAIN new[st] \subseteq Idx /\ \A i \in DOMAIN new[st] : st \in Lanes(group)
  BY <1>5, <1>7
<1>11. Contents(new) /\ \A st \in Seqs : \A i \in DOMAIN new[st] : new[st][i].shift = 0
  BY <1>6, <1>8, <1>9, <1>10 DEF Contents
<1> QED  BY <1>11 DEF new

LEMMA PlaceUbatchStep ==
    ASSUME Inv, NEW group \in Groups, NEW n \in Nat, PlaceUbatch(group, n)
    PROVE  Inv'
<1> DEFINE new == Placement(group, n)
           old == [st \in Seqs |-> [i \in DOMAIN new[st] |-> cells[st][i]]]
           e   == [group |-> group, new |-> new, heads |-> head, old |-> old]
<1>1. Contents(new) /\ \A st \in Seqs : \A i \in DOMAIN new[st] : new[st][i].shift = 0
  BY PlacementGood
<1> HIDE DEF new
<1>2. Rewrite(new) /\ batch' = [batch EXCEPT !.stack = Append(@, e)] /\ batch.phase = "prepare"
      /\ hasShift' = hasShift /\ tokens' = tokens + n /\ unified' = unified
  BY DEF PlaceUbatch, new
<1>3. Contents(old) /\ \A st \in Seqs : \A i \in DOMAIN old[st] : old[st][i].shift # 0 => hasShift[st]
  BY <1>1 DEF Contents, Inv, BooksOK, CellsOK, ShiftsOK
<1> HIDE DEF old
<1>4. EntryOK(e, hasShift)
  BY <1>1, <1>3 DEF EntryOK
<1> HIDE DEF e
<1>5. BatchOK'
  <2> DEFINE q == batch.stack
  <2>1. batch' \in [phase : {"none", "update", "prepare", "restore", "run"}, stack : {batch'.stack},
                    at : Nat, placed : BOOLEAN, origin : {batch'.origin}]
    BY <1>2 DEF Inv, BatchOK
  <2>2. IsSeq(q) /\ \A k \in 1..Len(q) : EntryOK(q[k], hasShift)
    BY DEF Inv, BatchOK
  <2>3. /\ IsSeq(Append(q, e)) /\ Len(Append(q, e)) = Len(q) + 1
        /\ \A k \in 1..Len(q) : Append(q, e)[k] = q[k]
        /\ Append(q, e)[Len(q) + 1] = e
    BY <2>2, AppendIsSeq
  <2> DEFINE r == Append(q, e)
  <2> HIDE DEF r, q
  <2>4. \A k \in 1..Len(r) : EntryOK(r[k], hasShift)
    <3> TAKE k \in 1..Len(r)
    <3>1. Len(q) \in Nat
      BY <2>2 DEF IsSeq
    <3>2. CASE k \in 1..Len(q)
      BY <3>2, <2>2, <2>3 DEF r
    <3>3. CASE k \notin 1..Len(q)
      <4>1. k = Len(q) + 1
        BY <3>1, <3>3, <2>3 DEF r
      <4> QED  BY <4>1, <2>3, <1>4 DEF r
    <3> QED  BY <3>2, <3>3
  <2>5. /\ batch'.phase = "prepare" /\ batch'.stack = r /\ batch'.at = batch.at
        /\ batch'.placed = batch.placed /\ batch'.origin = batch.origin
    BY <1>2 DEF r, q, Inv, BatchOK
  <2>6. batch.at \in Nat /\ batch.placed \in BOOLEAN /\ batch.placed
    BY <1>2 DEF Inv, BatchOK
  <2> QED  BY <1>2, <2>1, <2>3, <2>4, <2>5, <2>6 DEF BatchOK, r
<1>6. BooksOK'
  BY <1>1, <1>2, RewriteBooks DEF Inv
<1>7. ShiftsOK'
  BY <1>1, <1>2, ShiftsKept DEF Inv, BooksOK
<1>8. tokens' \in Nat
  BY <1>2 DEF Inv
<1> QED  BY <1>2, <1>5, <1>6, <1>7, <1>8 DEF Inv

\* the steps of llama_decode that only turn to the next phase
LEMMA PhaseSteps ==
    ASSUME Inv, NEW group, NEW n, PlaceFails(group, n) \/ PlaceEnd \/ RestoreEnd
    PROVE  Inv'
<1>1. BatchOK'
  <2>1. batch \in [phase : {"none", "update", "prepare", "restore", "run"}, stack : {batch.stack},
                   at : Nat, placed : BOOLEAN, origin : {batch.origin}]
        /\ IsSeq(batch.stack) /\ Len(batch.stack) \in Nat
        /\ \A k \in 1..Len(batch.stack) : EntryOK(batch.stack[k], hasShift)
    BY DEF Inv, BatchOK, IsSeq
  <2>2. hasShift' = hasShift
    BY DEF PlaceFails, PlaceEnd, RestoreEnd, books
  <2>3. CASE PlaceFails(group, n)
    <3>1. batch' = [batch EXCEPT !.phase = "restore", !.at = Len(batch.stack), !.placed = FALSE]
      BY <2>3 DEF PlaceFails
    <3>2. /\ batch'.phase = "restore" /\ batch'.stack = batch.stack /\ batch'.at = Len(batch.stack)
          /\ ~ batch'.placed
          /\ batch' \in [phase : {"none", "update", "prepare", "restore", "run"}, stack : {batch'.stack},
                         at : Nat, placed : BOOLEAN, origin : {batch'.origin}]
      BY <2>1, <3>1
    <3> QED  BY <2>1, <2>2, <3>2 DEF BatchOK
  <2>4. CASE PlaceEnd
    <3>1. batch' = [batch EXCEPT !.phase = "restore", !.at = Len(batch.stack)]
          /\ batch.phase = "prepare" /\ batch.stack # <<>>
      BY <2>4 DEF PlaceEnd
    <3>2. /\ batch'.phase = "restore" /\ batch'.stack = batch.stack /\ batch'.at = Len(batch.stack)
          /\ batch' \in [phase : {"none", "update", "prepare", "restore", "run"}, stack : {batch'.stack},
                         at : Nat, placed : BOOLEAN, origin : {batch'.origin}]
      BY <2>1, <3>1
    <3>3. Len(batch.stack) > 0
      BY <2>1, <3>1 DEF IsSeq
    <3> QED  BY <2>1, <2>2, <3>2, <3>3 DEF BatchOK
  <2>5. CASE RestoreEnd
    <3>1. CASE batch.placed
      <4>1. batch' = [batch EXCEPT !.phase = "run", !.at = 1, !.origin = <<>>]
            /\ batch.phase = "restore" /\ Len(batch.stack) > 0
        BY <2>5, <3>1 DEF RestoreEnd, Inv, BatchOK
      <4>2. /\ batch'.phase = "run" /\ batch'.stack = batch.stack /\ batch'.at = 1
            /\ batch' \in [phase : {"none", "update", "prepare", "restore", "run"}, stack : {batch'.stack},
                           at : Nat, placed : BOOLEAN, origin : {batch'.origin}]
        BY <2>1, <4>1
      <4> QED  BY <2>1, <2>2, <4>1, <4>2 DEF BatchOK
    <3>2. CASE ~ batch.placed
      <4>1. batch' = NoBatch
        BY <2>5, <3>2 DEF RestoreEnd
      <4> QED  BY <4>1, NoBatchOK
    <3> QED  BY <3>1, <3>2
  <2> QED  BY <2>3, <2>4, <2>5
<1>2. UNCHANGED <<unified, cells, used, count, hasShift, tokens>>
  BY DEF PlaceFails, PlaceEnd, RestoreEnd, books, meta
<1>3. BooksOK' /\ ShiftsOK'
  BY <1>2 DEF Inv, BooksOK, CellsOK, UsedOK, CountOK, Occurs, ShiftsOK
<1> QED  BY <1>1, <1>2, <1>3 DEF Inv

LEMMA RestoreOneStep == ASSUME Inv, RestoreOne PROVE Inv'
<1> DEFINE e == batch.stack[batch.at]
<1>1. EntryOK(e, hasShift)
  BY DEF RestoreOne, Inv, BatchOK
<1>2. Rewrite(e.old) /\ batch.phase = "restore" /\ batch' = [batch EXCEPT !.at = @ - 1]
      /\ UNCHANGED <<unified, hasShift, tokens>>
  BY DEF RestoreOne
<1>3. Contents(e.old) /\ \A st \in Seqs : \A i \in DOMAIN e.old[st] : e.old[st][i].shift # 0 => hasShift[st]
  BY <1>1 DEF EntryOK
<1>4. BatchOK'
  <2>1. /\ batch'.phase = "restore" /\ batch'.stack = batch.stack /\ batch'.at = batch.at - 1
        /\ batch'.placed = batch.placed
        /\ batch' \in [phase : {"none", "update", "prepare", "restore", "run"}, stack : {batch'.stack},
                       at : Nat, placed : BOOLEAN, origin : {batch'.origin}]
    BY <1>2 DEF RestoreOne, Inv, BatchOK
  <2> QED  BY <1>2, <2>1 DEF Inv, BatchOK, IsSeq
<1> HIDE DEF e
<1>5. BooksOK' /\ ShiftsOK'
  BY <1>2, <1>3, RewriteBooks, ShiftsKept DEF Inv, BooksOK
<1> QED  BY <1>2, <1>4, <1>5 DEF Inv

LEMMA RunUbatchStep == ASSUME Inv, RunUbatch PROVE Inv'
<1> DEFINE e == batch.stack[batch.at]
<1>1. EntryOK(e, hasShift)
  BY DEF RunUbatch, Inv, BatchOK
<1>2. Rewrite(e.new) /\ batch.phase = "run"
      /\ batch' = (IF batch.at < Len(batch.stack) THEN [batch EXCEPT !.at = @ + 1] ELSE NoBatch)
      /\ UNCHANGED <<unified, hasShift, tokens>>
  BY DEF RunUbatch
<1>3. Contents(e.new) /\ \A st \in Seqs : \A i \in DOMAIN e.new[st] : e.new[st][i].shift = 0
  BY <1>1 DEF EntryOK
<1>4. BatchOK'
  <2>1. CASE batch.at < Len(batch.stack)
    <3>1. /\ batch'.phase = "run" /\ batch'.stack = batch.stack /\ batch'.at = batch.at + 1
          /\ batch' \in [phase : {"none", "update", "prepare", "restore", "run"}, stack : {batch'.stack},
                         at : Nat, placed : BOOLEAN, origin : {batch'.origin}]
      BY <1>2, <2>1 DEF Inv, BatchOK
    <3> QED  BY <1>2, <2>1, <3>1 DEF Inv, BatchOK, IsSeq
  <2>2. CASE ~ (batch.at < Len(batch.stack))
    BY <1>2, <2>2, NoBatchOK
  <2> QED  BY <2>1, <2>2
<1> HIDE DEF e
<1>5. BooksOK' /\ ShiftsOK'
  BY <1>2, <1>3, RewriteBooks, ShiftsKept DEF Inv, BooksOK
<1> QED  BY <1>2, <1>4, <1>5 DEF Inv

LEMMA RunFailsStep == ASSUME Inv, RunFails PROVE Inv'
<1> DEFINE e == batch.stack[batch.at]
           first(st) == Min(LaneSeqs(e.group, st))
           left == [st \in Seqs |-> [i \in DOMAIN e.new[st] |-> Less(e.new[st][i], first(st))]]
<1>1. EntryOK(e, hasShift)
  BY DEF RunFails, Inv, BatchOK
<1>2. Rewrite(left) /\ batch' = NoBatch /\ UNCHANGED <<unified, hasShift, tokens>>
  BY DEF RunFails
<1>3. \A c \in GoodCell : \A s : Less(c, s) \in GoodCell /\ (c.shift = 0 => Less(c, s).shift = 0)
  BY LessGood DEF Empty
<1>4. Contents(left) /\ \A st \in Seqs : \A i \in DOMAIN left[st] : left[st][i].shift = 0
  BY <1>1, <1>3 DEF EntryOK, Contents
<1> HIDE DEF e, left
<1>5. BooksOK' /\ ShiftsOK'
  BY <1>2, <1>4, RewriteBooks, ShiftsKept DEF Inv, BooksOK
<1>6. BatchOK'
  BY <1>2, NoBatchOK
<1> QED  BY <1>2, <1>5, <1>6 DEF Inv

-----------------------------------------------------------------------------
LEMMA InvStep == Inv /\ [Next]_vars => Inv'
<1> SUFFICES ASSUME Inv, [Next]_vars PROVE Inv'
  OBVIOUS
<1>1. CASE UNCHANGED vars
  BY <1>1 DEF vars, books, meta, Inv, BooksOK, CellsOK, UsedOK, CountOK, Occurs, ShiftsOK, BatchOK
<1>2. CASE Calls
  <2>1. CASE Clear
    BY <2>1, ClearStep
  <2>2. ASSUME NEW p0 \in Bounds, NEW p1 \in p0 + 1..MaxPos + 1, SeqRmAny(p0, p1) PROVE Inv'
    BY <2>2, SeqRmAnyStep
  <2>3. ASSUME NEW s \in Seqs, SeqKeep(s) PROVE Inv'
    BY <2>3, SeqKeepStep
  <2>4. ASSUME NEW s \in Seqs, NEW d \in Seqs, SeqCpStream(s, d) PROVE Inv'
    BY <2>4, SeqCpStreamStep
  <2>5. ASSUME NEW s \in Seqs, NEW p0 \in Bounds, NEW p1 \in p0 + 1..MaxPos + 1,
               \/ SeqRm(s, p0, p1)
               \/ \E d \in Seqs : SeqCpShare(s, d, p0, p1)
               \/ \E delta \in Deltas : SeqAdd(s, p0, p1, delta)
               \/ \E by \in Divisors : SeqDiv(s, p0, p1, by)
        PROVE  Inv'
    <3>1. p0 \in Nat /\ Deltas \subseteq Int /\ Divisors \subseteq Nat \ {0}
      BY ShiftAssumption, BoundAssumption DEF Bounds
    <3> QED  BY <2>5, <3>1, SeqRmStep, SeqCpShareStep, SeqAddStep, SeqDivStep
  <2> QED  BY <1>2, <2>1, <2>2, <2>3, <2>4, <2>5 DEF Calls
<1>3. CASE Decode
  <2>1. ASSUME NEW group \in Groups, NEW n \in 1..MaxUbatch, PlaceUbatch(group, n) PROVE Inv'
    BY <2>1, PlaceUbatchStep
  <2>2. ASSUME NEW group \in Groups, NEW n \in 1..MaxUbatch, PlaceFails(group, n) PROVE Inv'
    BY <2>2, PhaseSteps
  <2> QED  BY <1>3, <2>1, <2>2, UpdateSteps, ApplyShiftStep, PhaseSteps, RestoreOneStep, RunUbatchStep,
              RunFailsStep DEF Decode
<1> QED  BY <1>1, <1>2, <1>3 DEF Next

LEMMA InvBooksExact == Inv => BooksExact
<1> SUFFICES ASSUME Inv, NEW st \in Seqs
             PROVE  /\ used[st] = {i \in Idx : cells[st][i].pos # -1}
                    /\ used[st] = {i \in Idx : cells[st][i].seq # {}}
                    /\ \A s \in Seqs, p \in Positions :
                          count[st][s][p] = Cardinality({i \in Idx : Holds(cells[st][i], s, p)})
                    /\ \A i \in Idx : cells[st][i].shift # 0 => hasShift[st]
  BY DEF BooksExact
<1>1. used[st] = {i \in Idx : cells[st][i].pos # -1}
  BY DEF Inv, BooksOK, UsedOK
<1>2. \A i \in Idx : cells[st][i].pos = -1 <=> cells[st][i].seq = {}
  BY DEF Inv, BooksOK, CellsOK, GoodCell
<1>3. used[st] = {i \in Idx : cells[st][i].seq # {}}
  BY <1>1, <1>2
<1>4. \A s \in Seqs, p \in Positions :
          count[st][s][p] = Cardinality({i \in Idx : Holds(cells[st][i], s, p)})
  BY DEF Inv, BooksOK, CountOK, Occurs
<1> QED  BY <1>1, <1>3, <1>4 DEF Inv, ShiftsOK

LEMMA InvAlways == Spec => []Inv
  BY InitInv, InvStep, PTL DEF Spec

\* The four books of llama_kv_cells (positions and sequences, the used set, seq_pos, the shift
\* flag) agree after any calls and inside any batch, for every size, so that seq_pos_min and
\* seq_pos_max, on which callers and apply_ubatch build the next positions, are true.
THEOREM BooksAgree == Spec => []BooksExact
  BY InvAlways, InvBooksExact, PTL

-----------------------------------------------------------------------------
(***************************************************************************)
(* Taking back a trial.  TrialOK says that undoing the entries one by one ends *)
(* at the cells before it, because no two entries hold one cell.            *)
(***************************************************************************)
\* an entry writes and overwrites the same cells, fills each, and gives them the
\* sequences of its group
Entry(k) == batch.stack[k]
LaneSet(one, group, st) == {s \in group : (IF one THEN 0 ELSE s) = st}
FillsOK ==
    \A k \in 1..Len(batch.stack), st \in Seqs :
        /\ DOMAIN Entry(k).old[st] = DOMAIN Entry(k).new[st]
        /\ \A i \in DOMAIN Entry(k).new[st] : /\ Entry(k).new[st][i].pos # -1
                                              /\ Entry(k).new[st][i].seq
                                                     = LaneSet(unified, Entry(k).group, st)

\* the entries that are in the cells: all of them, or those not yet taken back
OnTrial == IF batch.phase = "prepare" THEN Len(batch.stack) ELSE batch.at

\* the trial has changed the cells of its entries and no other; each was overwritten once
TrialOK ==
    batch.phase \in {"prepare", "restore"} =>
        /\ \A k \in 1..OnTrial, st \in Seqs : \A i \in DOMAIN Entry(k).new[st] :
              cells[st][i] = Entry(k).new[st][i]
        /\ \A st \in Seqs, i \in Idx :
              (\A k \in 1..OnTrial : i \notin DOMAIN Entry(k).new[st])
                  => cells[st][i] = batch.origin[st][i]
        /\ \A k \in 1..Len(batch.stack), st \in Seqs : \A i \in DOMAIN Entry(k).new[st] :
              /\ Entry(k).old[st][i] = batch.origin[st][i]
              /\ \A j \in 1..Len(batch.stack) : j # k => i \notin DOMAIN Entry(j).new[st]

TrialInv == Inv /\ FillsOK /\ TrialOK

\* without a batch on trial there is nothing to take back
LEMMA NoTrial ==
    ASSUME Inv', batch'.phase \in {"none", "update"}
    PROVE  FillsOK' /\ TrialOK'
<1>1. Len(batch'.stack) = 0
  BY DEF Inv, BatchOK
<1> QED  BY <1>1 DEF FillsOK, TrialOK

LEMMA UpdateEndTrial == ASSUME TrialInv, UpdateEnd PROVE FillsOK' /\ TrialOK'
<1>1. /\ batch'.phase = "prepare" /\ batch'.stack = batch.stack /\ batch'.origin = cells
      /\ Len(batch.stack) = 0 /\ cells' = cells
  BY DEF UpdateEnd, TrialInv, Inv, BatchOK, books, meta
<1> QED  BY <1>1 DEF FillsOK, TrialOK, OnTrial

LEMMA PlaceUbatchTrial ==
    ASSUME TrialInv, NEW group \in Groups, NEW n \in Nat, PlaceUbatch(group, n)
    PROVE  FillsOK' /\ TrialOK'
<1> DEFINE new == Placement(group, n)
           old == [st \in Seqs |-> [i \in DOMAIN new[st] |-> cells[st][i]]]
           e   == [group |-> group, new |-> new, heads |-> head, old |-> old]
           q   == batch.stack
           m   == Len(q)
           r   == batch'.stack
<1>1. Contents(new)
  BY PlacementGood DEF TrialInv
<1>2. \A st \in Seqs : \A i \in DOMAIN new[st] : cells[st][i].pos = -1
                                                 /\ new[st][i].seq = LaneSet(unified, group, st) /\ st \in Lanes(group)
  <2>1. \A st \in Seqs : \A i \in DOMAIN new[st] : st \in Lanes(group) /\ i \in Slot(st, n)
    BY DEF Placement
  <2>2. \A st \in Seqs : \A i \in DOMAIN new[st] : new[st][i].seq = LaneSeqs(group, st)
    BY DEF Placement
  <2> QED  BY <2>1, <2>2 DEF Slot, EmptyCells, LaneSeqs, LaneSet, StreamOf
<1> HIDE DEF new
<1>3. /\ Rewrite(new) /\ batch' = [batch EXCEPT !.stack = Append(@, e)] /\ batch.phase = "prepare"
      /\ UNCHANGED unified
  BY DEF PlaceUbatch, new
<1>4. \A st \in Seqs : \A i \in DOMAIN new[st] : new[st][i].pos # -1
  <2>1. \A st \in Lanes(group) : LaneSet(unified, group, st) # {}
    BY DEF Lanes, LaneSet, StreamOf
  <2>2. \A c \in GoodCell : c.seq # {} => c.pos # -1
    BY DEF GoodCell
  <2> QED  BY <2>1, <2>2, <1>1, <1>2 DEF Contents
<1>5. \A st \in Seqs, i \in Idx :
         cells'[st][i] = IF i \in DOMAIN new[st] THEN new[st][i] ELSE cells[st][i]
  BY <1>1, <1>3, RewriteCells DEF TrialInv, Inv, BooksOK
<1>6. \A st \in Seqs : DOMAIN new[st] \subseteq Idx /\ DOMAIN old[st] = DOMAIN new[st]
                       /\ \A i \in DOMAIN new[st] : old[st][i] = cells[st][i]
  BY <1>1 DEF Contents
<1> HIDE DEF old
<1>7. e.group = group /\ e.new = new /\ e.old = old
  OBVIOUS
<1>8. /\ batch'.phase = "prepare" /\ batch'.origin = batch.origin /\ r = Append(q, e)
  BY <1>3 DEF TrialInv, Inv, BatchOK
<1> HIDE DEF e, q, m, r
<1>9. /\ m \in Nat /\ Len(r) = m + 1 /\ r[m + 1] = e /\ \A k \in 1..m : r[k] = q[k]
  BY <1>8, AppendIsSeq DEF TrialInv, Inv, BatchOK, IsSeq, q, m
<1>10. \A k \in 1..Len(r) : k \in 1..m \/ k = m + 1
  BY <1>9
\* what the invariant says of the entries so far
<1>11. \A k \in 1..m, st \in Seqs :
          /\ DOMAIN q[k].old[st] = DOMAIN q[k].new[st]
          /\ \A i \in DOMAIN q[k].new[st] :
                /\ q[k].new[st][i].pos # -1
                /\ q[k].new[st][i].seq = LaneSet(unified, q[k].group, st)
  BY DEF TrialInv, FillsOK, Entry, q, m
<1>12. /\ \A k \in 1..m, st \in Seqs : \A i \in DOMAIN q[k].new[st] : cells[st][i] = q[k].new[st][i]
       /\ \A st \in Seqs, i \in Idx : (\A k \in 1..m : i \notin DOMAIN q[k].new[st])
                                          => cells[st][i] = batch.origin[st][i]
       /\ \A k \in 1..m, st \in Seqs : \A i \in DOMAIN q[k].new[st] :
             /\ q[k].old[st][i] = batch.origin[st][i]
             /\ \A j \in 1..m : j # k => i \notin DOMAIN q[j].new[st]
  BY <1>3 DEF TrialInv, TrialOK, OnTrial, Entry, q, m
<1>13. \A k \in 1..m, st \in Seqs : DOMAIN q[k].new[st] \subseteq Idx
  BY DEF TrialInv, Inv, BatchOK, EntryOK, Contents, q, m
\* the new entry takes cells that no earlier one has
<1>14. \A k \in 1..m, st \in Seqs : \A i \in DOMAIN q[k].new[st] : i \notin DOMAIN new[st]
  <2> SUFFICES ASSUME NEW k \in 1..m, NEW st \in Seqs, NEW i \in DOMAIN q[k].new[st], i \in DOMAIN new[st]
               PROVE  FALSE
    OBVIOUS
  <2>1. cells[st][i].pos # -1
    BY <1>11, <1>12
  <2> QED  BY <2>1, <1>2
<1>15. FillsOK'
  <2> SUFFICES ASSUME NEW k \in 1..Len(r), NEW st \in Seqs
               PROVE  /\ DOMAIN r[k].old[st] = DOMAIN r[k].new[st]
                      /\ \A i \in DOMAIN r[k].new[st] : /\ r[k].new[st][i].pos # -1
                                                        /\ r[k].new[st][i].seq
                                                             = LaneSet(unified, r[k].group, st)
    BY <1>3 DEF FillsOK, Entry, r
  <2>2. CASE k \in 1..m
    BY <2>2, <1>9, <1>11
  <2>3. CASE k = m + 1
    BY <2>3, <1>2, <1>4, <1>6, <1>7, <1>9
  <2> QED  BY <2>2, <2>3, <1>10
<1>16. TrialOK'
  <2>1. ASSUME NEW k \in 1..Len(r), NEW st \in Seqs, NEW i \in DOMAIN r[k].new[st]
        PROVE  cells'[st][i] = r[k].new[st][i]
    <3>1. CASE k \in 1..m
      BY <2>1, <3>1, <1>5, <1>9, <1>12, <1>13, <1>14
    <3>2. CASE k = m + 1
      BY <2>1, <3>2, <1>5, <1>6, <1>7, <1>9
    <3> QED  BY <3>1, <3>2, <1>10
  <2>2. ASSUME NEW st \in Seqs, NEW i \in Idx, \A k \in 1..Len(r) : i \notin DOMAIN r[k].new[st]
        PROVE  cells'[st][i] = batch.origin[st][i]
    <3>1. i \notin DOMAIN new[st]
      <4>1. m + 1 \in 1..Len(r)
        BY <1>9
      <4> QED  BY <4>1, <2>2, <1>7, <1>9
    <3>2. \A k \in 1..m : i \notin DOMAIN q[k].new[st]
      <4> TAKE k \in 1..m
      <4>1. k \in 1..Len(r)
        BY <1>9
      <4> QED  BY <4>1, <2>2, <1>9
    <3> QED  BY <3>1, <3>2, <1>5, <1>12
  <2>3. ASSUME NEW k \in 1..Len(r), NEW st \in Seqs, NEW i \in DOMAIN r[k].new[st]
        PROVE  /\ r[k].old[st][i] = batch.origin[st][i]
               /\ \A j \in 1..Len(r) : j # k => i \notin DOMAIN r[j].new[st]
    <3>1. CASE k \in 1..m
      <4>1. r[k].old[st][i] = batch.origin[st][i]
        BY <2>3, <3>1, <1>9, <1>12
      <4>2. ASSUME NEW j \in 1..Len(r), j # k PROVE i \notin DOMAIN r[j].new[st]
        <5>1. CASE j \in 1..m
          BY <2>3, <3>1, <4>2, <5>1, <1>9, <1>12
        <5>2. CASE j = m + 1
          BY <2>3, <3>1, <5>2, <1>7, <1>9, <1>14
        <5> QED  BY <5>1, <5>2, <1>10
      <4> QED  BY <4>1, <4>2
    <3>2. CASE k = m + 1
      <4>1. i \in DOMAIN new[st] /\ i \in Idx
        BY <2>3, <3>2, <1>6, <1>7, <1>9
      <4>2. \A j \in 1..m : i \notin DOMAIN q[j].new[st]
        BY <4>1, <1>14
      <4>3. r[k].old[st][i] = batch.origin[st][i]
        BY <3>2, <4>1, <4>2, <1>6, <1>7, <1>9, <1>12
      <4>4. ASSUME NEW j \in 1..Len(r), j # k PROVE i \notin DOMAIN r[j].new[st]
        BY <3>2, <4>2, <4>4, <1>9, <1>10
      <4> QED  BY <4>3, <4>4
    <3> QED  BY <3>1, <3>2, <1>10
  <2>4. OnTrial' = Len(r)
    BY <1>8 DEF OnTrial, r
  <2> QED  BY <2>1, <2>2, <2>3, <2>4, <1>8 DEF TrialOK, Entry, r
<1> QED  BY <1>15, <1>16

LEMMA TurnTrial ==
    ASSUME TrialInv, NEW group, NEW n, PlaceFails(group, n) \/ PlaceEnd PROVE FillsOK' /\ TrialOK'
<1>1. /\ batch.phase = "prepare" /\ batch'.phase = "restore" /\ batch'.at = Len(batch.stack)
      /\ batch'.stack = batch.stack /\ batch'.origin = batch.origin
      /\ UNCHANGED <<unified, cells>>
  BY DEF PlaceFails, PlaceEnd, books, meta, TrialInv, Inv, BatchOK
<1>2. OnTrial' = OnTrial
  BY <1>1 DEF OnTrial
<1> QED  BY <1>1, <1>2 DEF TrialInv, FillsOK, TrialOK, Entry

LEMMA RestoreOneTrial == ASSUME TrialInv, RestoreOne PROVE FillsOK' /\ TrialOK'
<1> DEFINE m == batch.at
           e == batch.stack[m]
<1>1. /\ batch.phase = "restore" /\ batch'.phase = "restore" /\ m \in 1..Len(batch.stack)
      /\ batch'.at = m - 1 /\ batch'.stack = batch.stack /\ batch'.origin = batch.origin
      /\ Rewrite(e.old) /\ UNCHANGED unified
  BY DEF RestoreOne, TrialInv, Inv, BatchOK
<1>2. m \in Nat /\ Len(batch.stack) \in Nat
  BY DEF TrialInv, Inv, BatchOK, IsSeq
<1>3. Contents(e.old) /\ Contents(e.new)
  BY <1>1 DEF TrialInv, Inv, BatchOK, EntryOK
<1>4. \A st \in Seqs, i \in Idx : cells'[st][i] = IF i \in DOMAIN e.old[st] THEN e.old[st][i] ELSE cells[st][i]
  BY <1>1, <1>3, RewriteCells DEF TrialInv, Inv, BooksOK
<1>5. \A st \in Seqs : /\ DOMAIN e.old[st] = DOMAIN e.new[st]
                       /\ \A i \in DOMAIN e.new[st] : /\ e.old[st][i] = batch.origin[st][i]
                                                      /\ \A j \in 1..Len(batch.stack) : j # m => i \notin DOMAIN Entry(j).new[st]
  BY <1>1 DEF TrialInv, FillsOK, TrialOK, Entry
<1>6. /\ \A k \in 1..m, st \in Seqs : \A i \in DOMAIN Entry(k).new[st] : cells[st][i] = Entry(k).new[st][i]
      /\ \A st \in Seqs, i \in Idx : (\A k \in 1..m : i \notin DOMAIN Entry(k).new[st])
                                         => cells[st][i] = batch.origin[st][i]
  BY <1>1 DEF TrialInv, TrialOK, OnTrial
<1>7. \A k \in 1..m, st \in Seqs : DOMAIN Entry(k).new[st] \subseteq Idx
  <2> SUFFICES ASSUME NEW k \in 1..m PROVE Contents(Entry(k).new)
    BY DEF Contents
  <2>1. k \in 1..Len(batch.stack)
    BY <1>1, <1>2
  <2>2. EntryOK(batch.stack[k], hasShift)
    BY <2>1 DEF TrialInv, Inv, BatchOK
  <2> QED
    BY <2>2 DEF EntryOK, Entry
<1> HIDE DEF m, e
<1>8. ASSUME NEW k \in 1..m - 1, NEW st \in Seqs, NEW i \in DOMAIN Entry(k).new[st]
      PROVE  cells'[st][i] = Entry(k).new[st][i]
  <2>1. k \in 1..m /\ k # m /\ k \in 1..Len(batch.stack)
    BY <1>1, <1>2
  <2>2. i \in Idx /\ i \notin DOMAIN e.new[st]
    BY <2>1, <1>5, <1>7, <1>8
  <2> QED  BY <2>1, <2>2, <1>4, <1>5, <1>6, <1>8
<1>9. ASSUME NEW st \in Seqs, NEW i \in Idx, \A k \in 1..m - 1 : i \notin DOMAIN Entry(k).new[st]
      PROVE  cells'[st][i] = batch.origin[st][i]
  <2>1. CASE i \in DOMAIN e.new[st]
    BY <2>1, <1>4, <1>5
  <2>2. CASE i \notin DOMAIN e.new[st]
    <3>1. \A k \in 1..m : i \notin DOMAIN Entry(k).new[st]
      <4> TAKE k \in 1..m
      <4>1. k \in 1..m - 1 \/ k = m
        BY <1>2
      <4>2. Entry(m) = e
        BY DEF Entry, e, m
      <4> QED  BY <4>1, <4>2, <1>9, <2>2
    <3> QED  BY <2>2, <3>1, <1>4, <1>5, <1>6
  <2> QED  BY <2>1, <2>2
<1>10. TrialOK'
  <2>1. OnTrial' = m - 1 /\ batch'.stack = batch.stack /\ batch'.origin = batch.origin
    BY <1>1 DEF OnTrial
  <2>2. \A k \in 1..Len(batch.stack), st \in Seqs : \A i \in DOMAIN Entry(k).new[st] :
              /\ Entry(k).old[st][i] = batch.origin[st][i]
              /\ \A j \in 1..Len(batch.stack) : j # k => i \notin DOMAIN Entry(j).new[st]
    BY <1>1 DEF TrialInv, TrialOK
  <2> QED  BY <2>1, <2>2, <1>8, <1>9 DEF TrialOK, Entry
<1>11. FillsOK'
  BY <1>1 DEF TrialInv, FillsOK, Entry
<1> QED  BY <1>10, <1>11

\* all is taken back: the cells are as they were before the trial
LEMMA AllTakenBack ==
    ASSUME TrialInv, RestoreEnd
    PROVE  \A st \in Seqs, i \in Idx : cells[st][i] = batch.origin[st][i]
  BY DEF RestoreEnd, TrialInv, TrialOK, OnTrial

LEMMA RunTrial ==
    ASSUME TrialInv, RestoreEnd \/ RunUbatch PROVE FillsOK' /\ TrialOK'
<1>1. CASE RestoreEnd
  <2>1. /\ batch'.phase \in {"run", "none"}
        /\ batch'.stack = batch.stack \/ batch'.stack = <<>>
        /\ unified' = unified
    BY <1>1 DEF RestoreEnd, TrialInv, Inv, BatchOK, NoBatch
  <2> QED  BY <2>1 DEF TrialInv, FillsOK, TrialOK, Entry
<1>2. CASE RunUbatch
  <2>1. /\ batch'.phase \in {"run", "none"}
        /\ batch'.stack = batch.stack \/ batch'.stack = <<>>
        /\ unified' = unified
    BY <1>2 DEF RunUbatch, TrialInv, Inv, BatchOK, NoBatch
  <2> QED  BY <2>1 DEF TrialInv, FillsOK, TrialOK, Entry
<1> QED  BY <1>1, <1>2

\* a call is made between two batches
LEMMA CallsAreQuiet == Calls => batch.phase = "none" /\ batch' = batch
<1> SUFFICES ASSUME Calls PROVE Quiet /\ CallDone
  BY DEF Quiet, CallDone
<1>1. ASSUME NEW s \in Seqs, NEW p0 \in Bounds, NEW p1 \in p0 + 1..MaxPos + 1,
             \/ SeqRm(s, p0, p1)
             \/ \E d \in Seqs : SeqCpShare(s, d, p0, p1)
             \/ \E delta \in Deltas : SeqAdd(s, p0, p1, delta)
             \/ \E by \in Divisors : SeqDiv(s, p0, p1, by)
      PROVE  Quiet /\ CallDone
  <2>1. SeqRm(s, p0, p1) => Quiet /\ CallDone
    BY DEF SeqRm
  <2>2. \A d \in Seqs : SeqCpShare(s, d, p0, p1) => Quiet /\ CallDone
    BY DEF SeqCpShare
  <2>3. \A delta \in Deltas : SeqAdd(s, p0, p1, delta) => Quiet /\ CallDone
    BY DEF SeqAdd
  <2>4. \A by \in Divisors : SeqDiv(s, p0, p1, by) => Quiet /\ CallDone
    BY DEF SeqDiv
  <2> QED  BY <1>1, <2>1, <2>2, <2>3, <2>4
<1>2. Clear => Quiet /\ CallDone
  BY DEF Clear
<1>3. \A p0, p1 : SeqRmAny(p0, p1) => Quiet /\ CallDone
  BY DEF SeqRmAny
<1>4. \A s : SeqKeep(s) => Quiet /\ CallDone
  BY DEF SeqKeep
<1>5. \A s, d : SeqCpStream(s, d) => Quiet /\ CallDone
  BY DEF SeqCpStream
<1> QED  BY <1>1, <1>2, <1>3, <1>4, <1>5 DEF Calls

LEMMA TrialStep == TrialInv /\ [Next]_vars => TrialInv'
<1> SUFFICES ASSUME TrialInv, [Next]_vars PROVE FillsOK' /\ TrialOK'
  BY InvStep DEF TrialInv
<1>0. Inv'
  BY InvStep DEF TrialInv
<1>1. CASE UNCHANGED vars
  <2>1. UNCHANGED <<unified, cells, batch>>
    BY <1>1 DEF vars, books, meta
  <2> QED  BY <1>0, <2>1 DEF TrialInv, FillsOK, TrialOK, OnTrial, Entry
<1>2. CASE Calls
  BY <1>0, <1>2, CallsAreQuiet, NoTrial
<1>3. CASE Decode
  <2>1. ASSUME NEW group \in Groups, NEW n \in 1..MaxUbatch, PlaceUbatch(group, n)
        PROVE  FillsOK' /\ TrialOK'
    BY <2>1, PlaceUbatchTrial
  <2>2. ASSUME NEW group \in Groups, NEW n \in 1..MaxUbatch, PlaceFails(group, n)
        PROVE  FillsOK' /\ TrialOK'
    BY <2>2, TurnTrial
  <2>3. CASE DecodeStart \/ CopyStream \/ ApplyShift \/ RunFails
    <3>1. DecodeStart => batch'.phase = "update"
      BY DEF DecodeStart, NoBatch
    <3>2. CopyStream \/ ApplyShift => batch'.phase = "update"
      BY DEF CopyStream, ApplyShift
    <3>3. RunFails => batch' = NoBatch
      BY DEF RunFails
    <3>4. NoBatch.phase = "none"
      BY DEF NoBatch
    <3>5. batch'.phase \in {"none", "update"}
      BY <2>3, <3>1, <3>2, <3>3, <3>4
    <3> QED  BY <3>5, <1>0, NoTrial
  <2>4. CASE UpdateEnd
    BY <2>4, UpdateEndTrial
  <2>5. CASE PlaceEnd
    BY <2>5, TurnTrial
  <2>6. CASE RestoreOne \/ RestoreEnd \/ RunUbatch
    BY <2>6, RestoreOneTrial, RunTrial
  <2> QED  BY <1>3, <2>1, <2>2, <2>3, <2>4, <2>5, <2>6 DEF Decode
<1> QED  BY <1>1, <1>2, <1>3 DEF Next

-----------------------------------------------------------------------------
(***************************************************************************)
(* The keys in the buffers belong to the cells, for every size.             *)
(*                                                                          *)
(* Two things stand between a cell and its key.  Stream copies wait in a    *)
(* queue, and a later one may copy what an earlier one brings: the invariant *)
(* names the buffers after each pending copy (Chain) and claims the keys of *)
(* the last.  A trial has overwritten cells: the invariant claims the keys of  *)
(* the cells before the trial (Visible), where TrialOK says it ends.        *)
(***************************************************************************)
Keys == [id : Nat, at : Int]

\* key d belongs to the token of cell c and stands, after c's pending shift, at c's position
KeyOK(c, d) == /\ d \in Keys
               /\ c.pos # -1 => /\ d.id = c.id
                                /\ ~ c.divided => d.at + c.shift = c.pos

\* D[k]: the buffers after the first k copies of q
Chain(D, q, base) ==
    /\ \A st \in Seqs : D[0][st] = base[st]
    /\ \A k \in 1..Len(q), st \in Seqs :
          D[k][st] = IF st = q[k][2] THEN D[k - 1][q[k][1]] ELSE D[k - 1][st]
    /\ \A j \in 0..Len(q), st \in Seqs :
          (\A k \in j + 1..Len(q) : q[k][2] # st) => D[Len(q)][st] = D[j][st]

CopiesOK == IsSeq(copies) /\ \A k \in 1..Len(copies) : copies[k][1] \in Seqs /\ copies[k][2] \in Seqs

\* once the pending copies are made, every key belongs to its cell
KeysAfter(base) ==
    \E D : /\ Chain(D, copies, data)
           /\ \A st \in Seqs, i \in Idx : KeyOK(base[st][i], D[Len(copies)][st][i])

KeyInv ==
    /\ TrialInv
    /\ data \in [Seqs -> [Idx -> Keys]]
    /\ CopiesOK
    /\ batch.phase \in {"prepare", "restore", "run"} => Len(copies) = 0
    /\ KeysAfter(Visible)

-----------------------------------------------------------------------------
LEMMA InitKeys == Init => KeyInv
<1> SUFFICES ASSUME Init PROVE KeyInv
  OBVIOUS
<1>1. TrialInv
  BY InitInv DEF TrialInv, FillsOK, TrialOK, Init, NoBatch
<1>2. data \in [Seqs -> [Idx -> Keys]]
  BY DEF Init, Keys
<1>3. CopiesOK /\ Len(copies) = 0
  BY DEF Init, CopiesOK, IsSeq
<1>4. Visible = cells
  BY DEF Init, Visible, NoBatch
<1>5. KeysAfter(cells)
  <2> DEFINE D == [k \in {0} |-> data]
  <2>1. Chain(D, copies, data)
    BY <1>3 DEF Chain
  <2>2. \A st \in Seqs, i \in Idx : KeyOK(cells[st][i], D[Len(copies)][st][i])
    BY <1>2, <1>3 DEF KeyOK, Init, Empty
  <2> HIDE DEF D
  <2> QED  BY <2>1, <2>2 DEF KeysAfter
<1> QED  BY <1>1, <1>2, <1>3, <1>4, <1>5 DEF KeyInv, TrialInv

\* a call that moves no buffer keeps the keys if each cell keeps its key
LEMMA KeysKept ==
    ASSUME KeyInv, TrialInv', batch.phase = "none", UNCHANGED <<data, copies, batch>>,
           \A st \in Seqs, i \in Idx : \A d : KeyOK(cells[st][i], d) => KeyOK(cells'[st][i], d)
    PROVE  KeyInv'
<1>1. PICK D : /\ Chain(D, copies, data)
               /\ \A st \in Seqs, i \in Idx : KeyOK(cells[st][i], D[Len(copies)][st][i])
  BY DEF KeyInv, TrialInv, KeysAfter, Visible
<1>2. KeysAfter(Visible)'
  <2>1. Chain(D, copies', data')
    BY <1>1
  <2>2. \A st \in Seqs, i \in Idx : KeyOK(cells'[st][i], D[Len(copies')][st][i])
    BY <1>1
  <2> QED  BY <2>1, <2>2 DEF KeysAfter, Visible
<1> QED  BY <1>2 DEF KeyInv, TrialInv, CopiesOK

\* what the calls do to a cell keeps its key
LEMMA CellKeys ==
    ASSUME NEW c \in GoodCell, NEW d, KeyOK(c, d)
    PROVE  /\ KeyOK(Empty, d)
           /\ \A s : KeyOK(Less(c, s), d)
           /\ c.pos # -1 => \A q : KeyOK([c EXCEPT !.seq = q], d)
           /\ c.pos # -1 => \A delta \in Int : KeyOK(Moved(c, delta), d)
           /\ c.pos # -1 => \A by : KeyOK(Divided(c, by), d)
<1>1. KeyOK(Empty, d)
  BY DEF KeyOK, Empty
<1>2. \A q : /\ [c EXCEPT !.seq = q].pos = c.pos /\ [c EXCEPT !.seq = q].id = c.id
             /\ [c EXCEPT !.seq = q].divided = c.divided /\ [c EXCEPT !.seq = q].shift = c.shift
  BY DEF GoodCell
<1>3. \A q : KeyOK([c EXCEPT !.seq = q], d)
  BY <1>2 DEF KeyOK
<1>4. \A s : KeyOK(Less(c, s), d)
  BY <1>1, <1>3 DEF Less
<1>5. ASSUME NEW delta \in Int, c.pos # -1 PROVE KeyOK(Moved(c, delta), d)
  <2>1. CASE c.pos + delta < 0
    BY <2>1, <1>1 DEF Moved
  <2>2. CASE ~ (c.pos + delta < 0)
    <3> DEFINE m == [c EXCEPT !.pos = @ + delta, !.shift = @ + delta]
    <3>1. m.pos = c.pos + delta /\ m.shift = c.shift + delta /\ m.id = c.id /\ m.divided = c.divided
      BY DEF GoodCell
    <3>2. c.pos \in Int /\ c.shift \in Int /\ d.at \in Int
      BY DEF GoodCell, KeyOK, Keys
    <3> HIDE DEF m
    <3>3. KeyOK(m, d)
      BY <3>1, <3>2, <1>5 DEF KeyOK
    <3> QED  BY <2>2, <3>3 DEF Moved, m
  <2> QED  BY <2>1, <2>2
<1>6. ASSUME NEW by, c.pos # -1 PROVE KeyOK(Divided(c, by), d)
  <2>1. Divided(c, by).divided /\ Divided(c, by).id = c.id
    BY DEF Divided, GoodCell
  <2> QED  BY <2>1, <1>6 DEF KeyOK
<1> QED  BY <1>1, <1>3, <1>4, <1>5, <1>6

\* one stream's hit cells are rewritten by F, the others stay
LEMMA CallKeys ==
    ASSUME KeyInv, NEW new, Contents(new), Rewrite(new), TrialInv', batch.phase = "none",
           UNCHANGED <<data, copies, batch>>,
           \A st \in Seqs : \A i \in DOMAIN new[st] : \A d :
               KeyOK(cells[st][i], d) => KeyOK(new[st][i], d)
    PROVE  KeyInv'
<1>1. \A st \in Seqs, i \in Idx :
         cells'[st][i] = IF i \in DOMAIN new[st] THEN new[st][i] ELSE cells[st][i]
  BY RewriteCells DEF KeyInv, TrialInv, Inv, BooksOK
<1>2. \A st \in Seqs, i \in Idx : \A d : KeyOK(cells[st][i], d) => KeyOK(cells'[st][i], d)
  BY <1>1
<1> QED  BY <1>2, KeysKept

-----------------------------------------------------------------------------
LEMMA ClearKeys == ASSUME KeyInv, TrialInv', Clear PROVE KeyInv'
<1>1. \A st \in Seqs, i \in Idx : cells'[st][i] = Empty
  BY DEF Clear
<1>2. \A st \in Seqs, i \in Idx : \A d : KeyOK(cells[st][i], d) => KeyOK(cells'[st][i], d)
  BY <1>1, CellKeys DEF KeyInv, TrialInv, Inv, BooksOK, CellsOK
<1> QED  BY <1>2, KeysKept DEF Clear, Quiet, CallDone

LEMMA SeqRmKeys ==
    ASSUME KeyInv, TrialInv', NEW s \in Seqs, NEW p0, NEW p1, SeqRm(s, p0, p1) PROVE KeyInv'
<1> DEFINE st == StreamOf(s)
           hit == Hit(st, s, p0, p1)
           new == [x \in Seqs |-> [i \in (IF x = st THEN hit ELSE {}) |-> Less(cells[x][i], s)]]
<1>0. st \in Seqs /\ hit \subseteq Idx /\ \A i \in hit : cells[st][i] \in GoodCell
  BY StreamType, HitType DEF KeyInv, TrialInv, Inv, BooksOK
<1>1. Contents(new)
  BY <1>0, LessGood DEF Contents
<1>2. Rewrite(new)
  BY DEF SeqRm, RewriteStream
<1>3. \A x \in Seqs : \A i \in DOMAIN new[x] : \A d : KeyOK(cells[x][i], d) => KeyOK(new[x][i], d)
  BY <1>0, CellKeys
<1> HIDE DEF new
<1> QED  BY <1>1, <1>2, <1>3, CallKeys DEF SeqRm, Quiet, CallDone

LEMMA SeqRmAnyKeys ==
    ASSUME KeyInv, TrialInv', NEW p0, NEW p1, SeqRmAny(p0, p1) PROVE KeyInv'
<1> DEFINE hit == [st \in Seqs |-> {i \in Idx : InRange(cells[st][i], p0, p1)}]
           new == [st \in Seqs |-> [i \in hit[st] |-> Empty]]
<1>1. Contents(new)
  BY EmptyGood DEF Contents
<1>2. Rewrite(new)
  BY DEF SeqRmAny
<1>3. \A x \in Seqs : \A i \in DOMAIN new[x] : \A d : KeyOK(cells[x][i], d) => KeyOK(new[x][i], d)
  BY CellKeys DEF KeyInv, TrialInv, Inv, BooksOK, CellsOK
<1> HIDE DEF new
<1> QED  BY <1>1, <1>2, <1>3, CallKeys DEF SeqRmAny, Quiet, CallDone

LEMMA SeqCpShareKeys ==
    ASSUME KeyInv, TrialInv', NEW s \in Seqs, NEW d \in Seqs, NEW p0, NEW p1, SeqCpShare(s, d, p0, p1)
    PROVE  KeyInv'
<1> DEFINE st == StreamOf(s)
           hit == Hit(st, s, p0, p1)
           new == [x \in Seqs |-> [i \in (IF x = st THEN hit ELSE {}) |->
                                      [cells[x][i] EXCEPT !.seq = @ \cup {d}]]]
<1>0. st \in Seqs /\ hit \subseteq Idx /\ \A i \in hit : cells[st][i] \in GoodCell /\ s \in cells[st][i].seq
  BY StreamType, HitType DEF KeyInv, TrialInv, Inv, BooksOK, Hit
<1>1. Contents(new)
  <2>1. \A c \in GoodCell : s \in c.seq => [c EXCEPT !.seq = @ \cup {d}] \in GoodCell
    BY DEF GoodCell
  <2> QED  BY <2>1, <1>0 DEF Contents
<1>2. Rewrite(new)
  BY DEF SeqCpShare, RewriteStream
<1>3. \A x \in Seqs : \A i \in DOMAIN new[x] : \A k : KeyOK(cells[x][i], k) => KeyOK(new[x][i], k)
  <2>1. \A c \in GoodCell : s \in c.seq => c.pos # -1
    BY DEF GoodCell
  <2> QED  BY <2>1, <1>0, CellKeys
<1> HIDE DEF new
<1> QED  BY <1>1, <1>2, <1>3, CallKeys DEF SeqCpShare, Quiet, CallDone

LEMMA SeqKeepKeys ==
    ASSUME KeyInv, TrialInv', NEW s \in Seqs, SeqKeep(s) PROVE KeyInv'
<1> DEFINE st == StreamOf(s)
           keep(c) == IF s \in c.seq THEN [c EXCEPT !.seq = {s}] ELSE Empty
           new == [x \in Seqs |-> [i \in (IF x = st THEN used[st] ELSE {}) |-> keep(cells[x][i])]]
<1>0. \A c \in GoodCell : /\ keep(c) \in GoodCell
                          /\ \A d : KeyOK(c, d) => KeyOK(keep(c), d)
  <2> TAKE c \in GoodCell
  <2>1. CASE s \in c.seq
    <3>1. c.pos # -1
      BY <2>1 DEF GoodCell
    <3>2. [c EXCEPT !.seq = {s}] \in GoodCell
      BY <2>1 DEF GoodCell
    <3>3. \A d : KeyOK(c, d) => KeyOK([c EXCEPT !.seq = {s}], d)
      BY <3>1, CellKeys
    <3> QED  BY <2>1, <3>2, <3>3
  <2>2. CASE s \notin c.seq
    BY <2>2, EmptyGood, CellKeys
  <2> QED  BY <2>1, <2>2
<1>a. used[st] \subseteq Idx /\ \A x \in Seqs, i \in Idx : cells[x][i] \in GoodCell
  BY StreamType DEF KeyInv, TrialInv, Inv, BooksOK, UsedOK, CellsOK
<1> HIDE DEF keep
<1>1. Contents(new)
  BY <1>0, <1>a DEF Contents
<1>2. Rewrite(new)
  BY DEF SeqKeep, RewriteStream, keep
<1>3. \A x \in Seqs : \A i \in DOMAIN new[x] : \A d : KeyOK(cells[x][i], d) => KeyOK(new[x][i], d)
  BY <1>0, <1>a
<1> HIDE DEF new
<1> QED  BY <1>1, <1>2, <1>3, CallKeys DEF SeqKeep, Quiet, CallDone

LEMMA SeqAddKeys ==
    ASSUME KeyInv, TrialInv', NEW s \in Seqs, NEW p0 \in Nat, NEW p1, NEW delta \in Int,
           SeqAdd(s, p0, p1, delta)
    PROVE  KeyInv'
<1> DEFINE st == StreamOf(s)
           hit == Hit(st, s, p0, p1)
           new == [x \in Seqs |-> [i \in (IF x = st THEN hit ELSE {}) |-> Moved(cells[x][i], delta)]]
<1>0. st \in Seqs /\ hit \subseteq Idx
      /\ \A i \in hit : cells[st][i] \in GoodCell /\ cells[st][i].pos >= p0 /\ cells[st][i].pos # -1
  <2>1. st \in Seqs /\ hit \subseteq Idx /\ \A i \in hit : cells[st][i] \in GoodCell
    BY StreamType, HitType DEF KeyInv, TrialInv, Inv, BooksOK
  <2>2. \A i \in hit : cells[st][i].pos >= p0
    BY DEF Hit, InRange
  <2>3. \A i \in hit : cells[st][i].pos # -1
    BY <2>1, <2>2 DEF GoodCell
  <2> QED  BY <2>1, <2>2, <2>3
<1>1. Contents(new)
  BY <1>0, AddGood DEF Contents
<1>2. Rewrite(new)
  BY DEF SeqAdd, RewriteStream
<1>3. \A x \in Seqs : \A i \in DOMAIN new[x] : \A d : KeyOK(cells[x][i], d) => KeyOK(new[x][i], d)
  BY <1>0, CellKeys
<1> HIDE DEF new
<1> QED  BY <1>1, <1>2, <1>3, CallKeys DEF SeqAdd, Quiet, CallDone

LEMMA SeqDivKeys ==
    ASSUME KeyInv, TrialInv', NEW s \in Seqs, NEW p0 \in Nat, NEW p1, NEW by \in Nat \ {0},
           SeqDiv(s, p0, p1, by)
    PROVE  KeyInv'
<1> DEFINE st == StreamOf(s)
           hit == Hit(st, s, p0, p1)
           new == [x \in Seqs |-> [i \in (IF x = st THEN hit ELSE {}) |-> Divided(cells[x][i], by)]]
<1>0. st \in Seqs /\ hit \subseteq Idx
      /\ \A i \in hit : cells[st][i] \in GoodCell /\ cells[st][i].pos >= p0 /\ cells[st][i].pos # -1
  <2>1. st \in Seqs /\ hit \subseteq Idx /\ \A i \in hit : cells[st][i] \in GoodCell
    BY StreamType, HitType DEF KeyInv, TrialInv, Inv, BooksOK
  <2>2. \A i \in hit : cells[st][i].pos >= p0
    BY DEF Hit, InRange
  <2>3. \A i \in hit : cells[st][i].pos # -1
    BY <2>1, <2>2 DEF GoodCell
  <2> QED  BY <2>1, <2>2, <2>3
<1>1. Contents(new)
  BY <1>0, DivGood DEF Contents
<1>2. Rewrite(new)
  BY DEF SeqDiv, RewriteStream
<1>3. \A x \in Seqs : \A i \in DOMAIN new[x] : \A d : KeyOK(cells[x][i], d) => KeyOK(new[x][i], d)
  BY <1>0, CellKeys
<1> HIDE DEF new
<1> QED  BY <1>1, <1>2, <1>3, CallKeys DEF SeqDiv, Quiet, CallDone

\* the buffers of the destination follow its cells when the copy is made
LEMMA SeqCpStreamKeys ==
    ASSUME KeyInv, TrialInv', NEW s \in Seqs, NEW d \in Seqs, SeqCpStream(s, d) PROVE KeyInv'
<1> DEFINE from == cells[s]
           src == {i \in Idx : s \in from[i].seq}
           new == [st \in Seqs |-> [i \in (IF st = d THEN Idx ELSE {}) |->
                     IF i \in src THEN [from[i] EXCEPT !.seq = {d}] ELSE Empty]]
           n == Len(copies)
           c == <<s, d>>
<1>1. /\ Rewrite(new) /\ batch.phase = "none" /\ copies' = Append(copies, c)
      /\ UNCHANGED <<data, batch, unified, tokens>>
  BY DEF SeqCpStream, Quiet, CallDone
<1>2. PICK D : /\ Chain(D, copies, data)
               /\ \A st \in Seqs, i \in Idx : KeyOK(cells[st][i], D[n][st][i])
  BY <1>1 DEF KeyInv, TrialInv, KeysAfter, Visible
<1>3. \A st \in Seqs, i \in Idx : cells[st][i] \in GoodCell
  BY DEF KeyInv, TrialInv, Inv, BooksOK, CellsOK
<1>4. /\ IsSeq(copies') /\ Len(copies') = n + 1 /\ n \in Nat
      /\ \A k \in 1..n : copies'[k] = copies[k]
      /\ copies'[n + 1] = c
  <2>1. IsSeq(copies) /\ n \in Nat
    BY DEF KeyInv, TrialInv, CopiesOK, IsSeq
  <2> QED  BY <1>1, <2>1, AppendIsSeq
<1>5. \A st \in Seqs, i \in Idx : cells'[st][i] = IF st = d THEN IF i \in src THEN [from[i] EXCEPT !.seq = {d}] ELSE Empty
                                                    ELSE cells[st][i]
  BY <1>1 DEF Rewrite
<1> DEFINE E == [k \in 0..n + 1 |-> IF k <= n THEN D[k]
                                     ELSE [st \in Seqs |-> IF st = d THEN D[n][s] ELSE D[n][st]]]
<1>6. \A k \in 0..n : E[k] = D[k]
  BY <1>4
<1>7. \A st \in Seqs : E[n + 1][st] = IF st = d THEN D[n][s] ELSE D[n][st]
  BY <1>4
<1> HIDE DEF E, n, c, new
<1>8. Chain(E, copies', data')
  <2>1. \A st \in Seqs : E[0][st] = data'[st]
    BY <1>1, <1>2, <1>4, <1>6 DEF Chain
  <2>2. ASSUME NEW k \in 1..n + 1, NEW st \in Seqs
        PROVE  E[k][st] = IF st = copies'[k][2] THEN E[k - 1][copies'[k][1]] ELSE E[k - 1][st]
    <3>1. CASE k = n + 1
      <4>1. E[k - 1] = D[n] /\ copies'[k] = c
        BY <3>1, <1>4, <1>6
      <4> QED  BY <3>1, <4>1, <1>7 DEF c
    <3>2. CASE k # n + 1
      <4>1. k \in 1..n /\ k \in 0..n /\ k - 1 \in 0..n
        BY <3>2, <1>4
      <4>2. E[k] = D[k] /\ E[k - 1] = D[k - 1] /\ copies'[k] = copies[k]
        BY <4>1, <1>4, <1>6
      <4> QED  BY <4>1, <4>2, <1>2 DEF Chain, n
    <3> QED  BY <3>1, <3>2
  <2>3. ASSUME NEW j \in 0..n + 1, NEW st \in Seqs, \A k \in j + 1..n + 1 : copies'[k][2] # st
        PROVE  E[n + 1][st] = E[j][st]
    <3>1. CASE j = n + 1
      BY <3>1
    <3>2. CASE j # n + 1
      <4>1. j \in 0..n /\ n \in 0..n /\ n + 1 \in j + 1..n + 1
        BY <3>2, <1>4
      <4>2. st # d
        BY <4>1, <2>3, <1>4 DEF c
      <4>3. \A k \in j + 1..n : copies[k][2] # st
        <5> TAKE k \in j + 1..n
        <5>1. k \in 1..n /\ k \in j + 1..n + 1
          BY <4>1, <1>4
        <5> QED  BY <5>1, <2>3, <1>4
      <4>4. D[n][st] = D[j][st]
        BY <4>1, <4>3, <1>2 DEF Chain, n
      <4> QED  BY <4>1, <4>2, <4>4, <1>6, <1>7
    <3> QED  BY <3>1, <3>2
  <2> QED  BY <2>1, <2>2, <2>3, <1>4 DEF Chain
<1>9. ASSUME NEW st \in Seqs, NEW i \in Idx
      PROVE  KeyOK(cells'[st][i], E[n + 1][st][i])
  <2>1. CASE st = d
    <3>1. KeyOK(from[i], D[n][s][i]) /\ from[i] \in GoodCell
      BY <1>2, <1>3
    <3>2. \A q : from[i].pos # -1 => KeyOK([from[i] EXCEPT !.seq = q], D[n][s][i])
      BY <3>1, CellKeys
    <3>3. i \in src => from[i].pos # -1
      BY <3>1 DEF GoodCell
    <3>4. KeyOK(cells'[st][i], D[n][s][i])
      BY <2>1, <3>1, <3>2, <3>3, <1>5, CellKeys
    <3> QED  BY <3>4, <2>1, <1>7
  <2>2. CASE st # d
    BY <2>2, <1>2, <1>5, <1>7
  <2> QED  BY <2>1, <2>2
<1>10. KeysAfter(Visible)'
  <2>1. Visible' = cells'
    BY <1>1 DEF Visible
  <2> QED  BY <2>1, <1>8, <1>9, <1>4 DEF KeysAfter
<1>11. CopiesOK'
  <2>1. ASSUME NEW k \in 1..n + 1 PROVE copies'[k][1] \in Seqs /\ copies'[k][2] \in Seqs
    <3>1. CASE k = n + 1
      BY <3>1, <1>4 DEF c
    <3>2. CASE k # n + 1
      <4>1. k \in 1..n
        BY <3>2, <1>4
      <4> QED  BY <4>1, <1>4 DEF KeyInv, TrialInv, CopiesOK, n
    <3> QED  BY <3>1, <3>2
  <2> QED  BY <2>1, <1>4 DEF CopiesOK
<1> QED  BY <1>1, <1>10, <1>11 DEF KeyInv, TrialInv

-----------------------------------------------------------------------------
LEMMA TailIsSeq ==
    ASSUME NEW q, IsSeq(q), q # <<>>
    PROVE  /\ Len(q) \in Nat /\ Len(q) > 0 /\ Head(q) = q[1]
           /\ IsSeq(Tail(q)) /\ Len(Tail(q)) = Len(q) - 1
           /\ \A k \in 1..Len(q) - 1 : Tail(q)[k] = q[k + 1]
<1> DEFINE S == {q[k] : k \in 1..Len(q)}
<1>1. q \in Seq(S)
  BY DEF IsSeq
<1> HIDE DEF S
<1>2. Tail(q) \in Seq(S) /\ Head(q) = q[1] /\ Len(Tail(q)) = Len(q) - 1
      /\ \A k \in 1..Len(q) - 1 : Tail(q)[k] = q[k + 1]
  BY <1>1, HeadTailProperties
<1>3. IsSeq(Tail(q))
  BY <1>2, LenProperties DEF IsSeq
<1>4. Len(q) \in Nat /\ Len(q) > 0
  BY <1>1, LenProperties, EmptySeq DEF IsSeq
<1> QED  BY <1>2, <1>3, <1>4

\* without pending copies the keys in the buffers are the cells'
LEMMA NoCopies ==
    ASSUME NEW base, Len(copies) = 0, KeysAfter(base)
    PROVE  \A st \in Seqs, i \in Idx : KeyOK(base[st][i], data[st][i])
  BY DEF KeysAfter, Chain

LEMMA KeysNow ==
    ASSUME Len(copies') = 0, \A st \in Seqs, i \in Idx : KeyOK(Visible'[st][i], data'[st][i])
    PROVE  KeysAfter(Visible)'
<1> DEFINE D == [k \in {0} |-> data']
<1>1. D[0] = data'
  OBVIOUS
<1> HIDE DEF D
<1>2. Chain(D, copies', data')
  BY <1>1 DEF Chain
<1> QED  BY <1>1, <1>2 DEF KeysAfter

LEMMA DecodeStartKeys == ASSUME KeyInv, TrialInv', DecodeStart PROVE KeyInv'
<1>1. /\ batch.phase = "none" /\ batch'.phase = "update" /\ batch'.stack = <<>>
      /\ UNCHANGED <<cells, data, copies, unified>>
  BY DEF DecodeStart, Quiet, NoBatch, books, meta
<1>2. Visible = cells /\ Visible' = cells
  BY <1>1 DEF Visible
<1>3. KeysAfter(Visible)'
  BY <1>1, <1>2 DEF KeyInv, TrialInv, KeysAfter
<1> QED  BY <1>1, <1>3 DEF KeyInv, TrialInv, CopiesOK

LEMMA UpdateEndKeys == ASSUME KeyInv, TrialInv', UpdateEnd PROVE KeyInv'
<1>1. /\ batch.phase = "update" /\ copies = <<>>
      /\ UNCHANGED <<cells, data, copies, unified>>
  BY DEF UpdateEnd, books, meta
<1>2. batch'.phase = "prepare" /\ batch'.stack = batch.stack /\ batch'.origin = cells /\ Len(batch.stack) = 0
  BY DEF UpdateEnd, KeyInv, TrialInv, Inv, BatchOK
<1>3. Visible = cells /\ Visible' = cells
  BY <1>1, <1>2 DEF Visible
<1>4. KeysAfter(Visible)'
  BY <1>1, <1>3 DEF KeyInv, TrialInv, KeysAfter
<1> QED  BY <1>1, <1>4 DEF KeyInv, TrialInv, CopiesOK

LEMMA CopyStreamKeys == ASSUME KeyInv, TrialInv', CopyStream PROVE KeyInv'
<1> DEFINE n == Len(copies)
           c == Head(copies)
<1>1. /\ batch.phase = "update" /\ copies # <<>> /\ copies' = Tail(copies)
      /\ data' = [data EXCEPT ![c[2]] = data[c[1]]]
      /\ UNCHANGED <<cells, batch, unified>>
  BY DEF CopyStream, books, meta
<1>2. PICK D : /\ Chain(D, copies, data)
               /\ \A st \in Seqs, i \in Idx : KeyOK(cells[st][i], D[n][st][i])
  BY <1>1 DEF KeyInv, TrialInv, KeysAfter, Visible
<1>3. /\ n \in Nat /\ n > 0 /\ c = copies[1] /\ IsSeq(copies') /\ Len(copies') = n - 1
      /\ \A k \in 1..n - 1 : copies'[k] = copies[k + 1]
  BY <1>1, TailIsSeq DEF KeyInv, TrialInv, CopiesOK
<1>4. c[1] \in Seqs /\ c[2] \in Seqs
  BY <1>3 DEF KeyInv, TrialInv, CopiesOK
<1> DEFINE E == [k \in 0..n - 1 |-> D[k + 1]]
<1>5. \A k \in 0..n - 1 : E[k] = D[k + 1]
  OBVIOUS
<1> HIDE DEF E, c, n
<1>6. Chain(E, copies', data')
  <2>1. ASSUME NEW st \in Seqs PROVE E[0][st] = data'[st]
    <3>1. E[0] = D[1]
      BY <1>3, <1>5
    <3>2. D[1][st] = IF st = copies[1][2] THEN D[0][copies[1][1]] ELSE D[0][st]
      BY <1>2, <1>3 DEF Chain, n
    <3>3. \A x \in Seqs : D[0][x] = data[x]
      BY <1>2 DEF Chain
    <3>4. data'[st] = IF st = c[2] THEN data[c[1]] ELSE data[st]
      BY <1>1, <1>4 DEF KeyInv, TrialInv
    <3> QED  BY <3>1, <3>2, <3>3, <3>4, <1>3, <1>4
  <2>2. ASSUME NEW k \in 1..n - 1, NEW st \in Seqs
        PROVE  E[k][st] = IF st = copies'[k][2] THEN E[k - 1][copies'[k][1]] ELSE E[k - 1][st]
    <3>1. k \in 0..n - 1 /\ k - 1 \in 0..n - 1 /\ k + 1 \in 1..n /\ (k + 1) - 1 = k /\ (k - 1) + 1 = k
      BY <1>3
    <3>2. E[k] = D[k + 1] /\ E[k - 1] = D[k] /\ copies'[k] = copies[k + 1]
      BY <3>1, <1>3, <1>5
    <3>3. D[k + 1][st] = IF st = copies[k + 1][2] THEN D[k][copies[k + 1][1]] ELSE D[k][st]
      BY <3>1, <1>2 DEF Chain, n
    <3> QED  BY <3>2, <3>3
  <2>3. ASSUME NEW j \in 0..n - 1, NEW st \in Seqs, \A k \in j + 1..n - 1 : copies'[k][2] # st
        PROVE  E[n - 1][st] = E[j][st]
    <3>1. j + 1 \in 0..n /\ n - 1 \in 0..n - 1 /\ (n - 1) + 1 = n
      BY <1>3
    <3>2. \A k \in (j + 1) + 1..n : copies[k][2] # st
      <4> TAKE k \in (j + 1) + 1..n
      <4>1. k - 1 \in j + 1..n - 1 /\ k - 1 \in 1..n - 1 /\ (k - 1) + 1 = k
        BY <1>3
      <4>2. copies'[k - 1] = copies[k]
        BY <4>1, <1>3
      <4> QED  BY <4>1, <4>2, <2>3
    <3>3. D[n][st] = D[j + 1][st]
      BY <3>1, <3>2, <1>2 DEF Chain, n
    <3> QED  BY <3>1, <3>3, <1>5
  <2> QED  BY <2>1, <2>2, <2>3, <1>3 DEF Chain
<1>7. KeysAfter(Visible)'
  <2>1. Visible' = cells
    BY <1>1 DEF Visible
  <2>2. E[n - 1] = D[n]
    BY <1>3, <1>5
  <2>3. \A st \in Seqs, i \in Idx : KeyOK(cells[st][i], E[Len(copies')][st][i])
    BY <2>2, <1>2, <1>3
  <2> QED  BY <2>1, <2>3, <1>6 DEF KeysAfter
<1>8. CopiesOK'
  <2>1. ASSUME NEW k \in 1..n - 1 PROVE copies'[k][1] \in Seqs /\ copies'[k][2] \in Seqs
    <3>1. k + 1 \in 1..n
      BY <1>3
    <3> QED  BY <3>1, <1>3 DEF KeyInv, TrialInv, CopiesOK, n
  <2> QED  BY <2>1, <1>3 DEF CopiesOK
<1>9. data' \in [Seqs -> [Idx -> Keys]]
  BY <1>1, <1>4 DEF KeyInv, TrialInv
<1> QED  BY <1>1, <1>7, <1>8, <1>9 DEF KeyInv, TrialInv

LEMMA ApplyShiftKeys == ASSUME KeyInv, TrialInv', ApplyShift PROVE KeyInv'
<1>1. /\ batch.phase = "update" /\ copies = <<>> /\ Len(copies) = 0
      /\ UNCHANGED <<batch, unified, copies>>
  BY DEF ApplyShift
<1>2. \A st \in Seqs, i \in Idx :
         /\ cells[st][i] \in GoodCell /\ data[st][i] \in Keys
         /\ cells'[st][i] = [cells[st][i] EXCEPT !.shift = 0]
         /\ data'[st][i] = [data[st][i] EXCEPT !.at = @ + cells[st][i].shift]
  BY DEF ApplyShift, KeyInv, TrialInv, Inv, BooksOK, CellsOK
<1>3. \A c \in GoodCell, d \in Keys : [d EXCEPT !.at = @ + c.shift] \in Keys
  BY DEF GoodCell, Keys
<1>4. data' \in [Seqs -> [Idx -> Keys]]
  <2>1. data' = [st \in Seqs |-> [i \in Idx |-> [data[st][i] EXCEPT !.at = @ + cells[st][i].shift]]]
    BY DEF ApplyShift
  <2> QED  BY <2>1, <1>2, <1>3
<1>5. ASSUME NEW c \in GoodCell, NEW d \in Keys, KeyOK(c, d)
      PROVE  KeyOK([c EXCEPT !.shift = 0], [d EXCEPT !.at = @ + c.shift])
  <2> DEFINE m == [c EXCEPT !.shift = 0]
             e == [d EXCEPT !.at = @ + c.shift]
  <2>1. m.pos = c.pos /\ m.shift = 0 /\ m.id = c.id /\ m.divided = c.divided
    BY DEF GoodCell
  <2>2. e \in Keys /\ e.id = d.id /\ e.at = d.at + c.shift
    BY <1>3 DEF Keys
  <2>3. c.shift \in Int /\ d.at \in Int /\ c.pos \in Int
    BY DEF GoodCell, Keys
  <2> HIDE DEF m, e
  <2>4. KeyOK(m, e)
    BY <2>1, <2>2, <2>3, <1>5 DEF KeyOK
  <2> QED  BY <2>4 DEF m, e
<1>6. \A st \in Seqs, i \in Idx : KeyOK(cells'[st][i], data'[st][i])
  <2>1. \A st \in Seqs, i \in Idx : KeyOK(cells[st][i], data[st][i])
    BY <1>1, NoCopies DEF KeyInv, TrialInv, Visible
  <2> TAKE st \in Seqs, i \in Idx
  <2> DEFINE c == cells[st][i]
             d == data[st][i]
  <2>2. KeyOK(c, d) /\ c \in GoodCell /\ d \in Keys
    BY <2>1, <1>2
  <2>3. cells'[st][i] = [c EXCEPT !.shift = 0] /\ data'[st][i] = [d EXCEPT !.at = @ + c.shift]
    BY <1>2
  <2> HIDE DEF c, d
  <2>4. KeyOK([c EXCEPT !.shift = 0], [d EXCEPT !.at = @ + c.shift])
    BY <2>2, <1>5
  <2> QED  BY <2>3, <2>4
<1>7. KeysAfter(Visible)'
  BY <1>1, <1>6, KeysNow DEF Visible
<1> QED  BY <1>1, <1>4, <1>7 DEF KeyInv, TrialInv, CopiesOK

-----------------------------------------------------------------------------
\* the steps of a trial move no buffer and do not change what is visible
LEMMA TrialKeys ==
    ASSUME KeyInv, TrialInv', NEW group, NEW n,
           PlaceUbatch(group, n) \/ PlaceFails(group, n) \/ PlaceEnd \/ RestoreOne
    PROVE  KeyInv'
<1>1. /\ batch.phase \in {"prepare", "restore"} /\ batch'.phase \in {"prepare", "restore"}
      /\ batch'.origin = batch.origin /\ UNCHANGED <<copies, data>>
  BY DEF PlaceUbatch, PlaceFails, PlaceEnd, RestoreOne, books, KeyInv, TrialInv, Inv, BatchOK
<1>2. Visible' = Visible
  BY <1>1 DEF Visible
<1> QED  BY <1>1, <1>2 DEF KeyInv, TrialInv, KeysAfter, CopiesOK

\* all is taken back: the cells are as they were before the trial
LEMMA RestoreEndKeys == ASSUME KeyInv, TrialInv', RestoreEnd PROVE KeyInv'
<1>1. /\ batch.phase = "restore" /\ batch'.phase \in {"run", "none"}
      /\ UNCHANGED <<unified, cells, copies, data>>
  BY DEF RestoreEnd, KeyInv, TrialInv, Inv, BatchOK, books, meta, NoBatch
<1>2. Visible = batch.origin /\ Visible' = cells /\ Len(copies) = 0
  BY <1>1 DEF Visible, KeyInv
<1>3. \A st \in Seqs, i \in Idx : KeyOK(Visible'[st][i], data'[st][i])
  BY <1>1, <1>2, NoCopies, AllTakenBack DEF KeyInv, TrialInv
<1>4. KeysAfter(Visible)'
  BY <1>1, <1>2, <1>3, KeysNow
<1> QED  BY <1>1, <1>2, <1>4 DEF KeyInv, TrialInv, CopiesOK

LEMMA RunUbatchKeys == ASSUME KeyInv, TrialInv', RunUbatch PROVE KeyInv'
<1> DEFINE new == batch.stack[batch.at].new
<1>1. /\ batch.phase = "run" /\ batch.at \in 1..Len(batch.stack)
      /\ Rewrite(new) /\ UNCHANGED <<unified, copies>>
      /\ data' = [st \in Seqs |-> [i \in Idx |->
                     IF i \in DOMAIN new[st] THEN [id |-> new[st][i].id, at |-> new[st][i].pos]
                                              ELSE data[st][i]]]
  BY DEF RunUbatch, KeyInv, TrialInv, Inv, BatchOK
<1>2. Contents(new) /\ \A st \in Seqs : \A i \in DOMAIN new[st] : new[st][i].shift = 0
  BY <1>1 DEF KeyInv, TrialInv, Inv, BatchOK, EntryOK
<1>3. /\ batch'.phase \in {"run", "none"}
      /\ batch'.stack = batch.stack \/ batch'.stack = <<>>
  BY DEF RunUbatch, KeyInv, TrialInv, Inv, BatchOK, NoBatch
<1> HIDE DEF new
<1>4. \A st \in Seqs, i \in Idx :
         cells'[st][i] = IF i \in DOMAIN new[st] THEN new[st][i] ELSE cells[st][i]
  BY <1>1, <1>2, RewriteCells DEF KeyInv, TrialInv, Inv, BooksOK
<1>5. \A c \in GoodCell : /\ [id |-> c.id, at |-> c.pos] \in Keys
                          /\ c.shift = 0 => KeyOK(c, [id |-> c.id, at |-> c.pos])
  BY DEF GoodCell, Keys, KeyOK
<1>6. data' \in [Seqs -> [Idx -> Keys]]
  <2>1. \A st \in Seqs, i \in Idx :
           (IF i \in DOMAIN new[st] THEN [id |-> new[st][i].id, at |-> new[st][i].pos]
                                    ELSE data[st][i]) \in Keys
    BY <1>2, <1>5 DEF Contents, KeyInv
  <2> QED  BY <2>1, <1>1
<1>7. Visible = cells /\ Visible' = cells' /\ Len(copies) = 0
  BY <1>1, <1>3 DEF Visible, KeyInv
<1>8. \A st \in Seqs, i \in Idx : KeyOK(cells[st][i], data[st][i])
  BY <1>7, NoCopies DEF KeyInv, TrialInv
<1>9. ASSUME NEW st \in Seqs, NEW i \in Idx PROVE KeyOK(cells'[st][i], data'[st][i])
  <2>1. CASE i \in DOMAIN new[st]
    <3> DEFINE c == new[st][i]
    <3>1. c \in GoodCell /\ c.shift = 0
      BY <2>1, <1>2 DEF Contents
    <3>2. data'[st][i] = [id |-> c.id, at |-> c.pos] /\ cells'[st][i] = c
      BY <2>1, <1>1, <1>4
    <3> HIDE DEF c
    <3> QED  BY <3>1, <3>2, <1>5
  <2>2. CASE i \notin DOMAIN new[st]
    BY <2>2, <1>1, <1>4, <1>8
  <2> QED  BY <2>1, <2>2
<1>10. KeysAfter(Visible)'
  BY <1>1, <1>7, <1>9, KeysNow
<1> QED  BY <1>1, <1>3, <1>6, <1>7, <1>10 DEF KeyInv, TrialInv, CopiesOK

\* the groups whose computation may fail have one sequence, so that their cells are freed
LEMMA RunFailsKeys ==
    ASSUME KeyInv, TrialInv', RunFails, \A g \in Failing : \E s : g = {s}
    PROVE  KeyInv'
<1> DEFINE e == batch.stack[batch.at]
           first(st) == Min(LaneSeqs(e.group, st))
           left == [st \in Seqs |-> [i \in DOMAIN e.new[st] |-> Less(e.new[st][i], first(st))]]
<1>1. /\ batch.phase = "run" /\ batch.at \in 1..Len(batch.stack) /\ e.group \in Failing
      /\ Rewrite(left) /\ batch'.phase = "none" /\ batch'.stack = <<>>
      /\ UNCHANGED <<unified, copies, data>>
  BY DEF RunFails, KeyInv, TrialInv, Inv, BatchOK, NoBatch
<1>2. Contents(e.new) /\ \A st \in Seqs : \A i \in DOMAIN e.new[st] :
         e.new[st][i].pos # -1 /\ e.new[st][i].seq = LaneSeqs(e.group, st)
  <2>1. Contents(e.new)
    BY <1>1 DEF KeyInv, TrialInv, Inv, BatchOK, EntryOK
  <2>2. \A st \in Seqs : LaneSet(unified, e.group, st) = LaneSeqs(e.group, st)
    BY DEF LaneSeqs, LaneSet, StreamOf
  <2>3. \A st \in Seqs : \A i \in DOMAIN e.new[st] :
           e.new[st][i].pos # -1 /\ e.new[st][i].seq = LaneSet(unified, e.group, st)
    BY <1>1 DEF KeyInv, TrialInv, FillsOK, Entry
  <2> QED
    BY <2>1, <2>2, <2>3
<1>3. PICK s : e.group = {s}
  BY <1>1
<1> HIDE DEF e
<1>4. ASSUME NEW st \in Seqs, NEW i \in DOMAIN e.new[st] PROVE left[st][i] = Empty
  <2>1. s \in Int
    BY <1>1, <1>3, GroupAssumption, SeqsAssumption, FS_CardinalityType
  <2>2. LaneSeqs(e.group, st) \subseteq {s} /\ LaneSeqs(e.group, st) # {}
    <3>1. e.new[st][i] \in GoodCell /\ e.new[st][i].pos # -1 /\ e.new[st][i].seq = LaneSeqs(e.group, st)
      BY <1>2 DEF Contents
    <3> QED  BY <3>1, <1>3 DEF GoodCell, LaneSeqs
  <2>3. LaneSeqs(e.group, st) = {s}
    BY <2>2
  <2>4. first(st) = s
    BY <2>1, <2>3 DEF Min
  <2> QED  BY <2>3, <2>4, <1>2 DEF Less
<1>5. Contents(left)
  BY <1>2, <1>4, EmptyGood DEF Contents
<1> HIDE DEF left
<1>6. \A st \in Seqs, i \in Idx :
         cells'[st][i] = IF i \in DOMAIN left[st] THEN left[st][i] ELSE cells[st][i]
  BY <1>1, <1>5, RewriteCells DEF KeyInv, TrialInv, Inv, BooksOK
<1>7. \A st \in Seqs : DOMAIN left[st] = DOMAIN e.new[st]
  BY DEF left
<1>8. Visible = cells /\ Visible' = cells' /\ Len(copies) = 0
  BY <1>1 DEF Visible, KeyInv
<1>9. \A st \in Seqs, i \in Idx : KeyOK(cells[st][i], data[st][i])
  BY <1>8, NoCopies DEF KeyInv, TrialInv
<1>10. \A st \in Seqs, i \in Idx : KeyOK(cells'[st][i], data'[st][i])
  BY <1>1, <1>4, <1>6, <1>7, <1>9 DEF KeyOK, Empty
<1>11. KeysAfter(Visible)'
  BY <1>1, <1>8, <1>10, KeysNow
<1> QED  BY <1>1, <1>8, <1>11 DEF KeyInv, TrialInv, CopiesOK

-----------------------------------------------------------------------------
LEMMA KeyStep ==
    ASSUME \A g \in Failing : \E s : g = {s}
    PROVE  KeyInv /\ [Next]_vars => KeyInv'
<1> SUFFICES ASSUME KeyInv, [Next]_vars PROVE KeyInv'
  OBVIOUS
<1>0. TrialInv'
  BY TrialStep DEF KeyInv
<1>1. CASE UNCHANGED vars
  <2>1. UNCHANGED <<unified, cells, copies, data, batch>>
    BY <1>1 DEF vars, books, meta
  <2>2. KeysAfter(Visible)'
    BY <2>1 DEF KeyInv, TrialInv, KeysAfter, Visible
  <2> QED  BY <1>0, <2>1, <2>2 DEF KeyInv, CopiesOK
<1>2. CASE Calls
  <2>1. CASE Clear
    BY <2>1, <1>0, ClearKeys
  <2>2. ASSUME NEW p0 \in Bounds, NEW p1 \in p0 + 1..MaxPos + 1, SeqRmAny(p0, p1) PROVE KeyInv'
    BY <2>2, <1>0, SeqRmAnyKeys
  <2>3. ASSUME NEW s \in Seqs, SeqKeep(s) PROVE KeyInv'
    BY <2>3, <1>0, SeqKeepKeys
  <2>4. ASSUME NEW s \in Seqs, NEW d \in Seqs, SeqCpStream(s, d) PROVE KeyInv'
    BY <2>4, <1>0, SeqCpStreamKeys
  <2>5. ASSUME NEW s \in Seqs, NEW p0 \in Bounds, NEW p1 \in p0 + 1..MaxPos + 1,
               \/ SeqRm(s, p0, p1)
               \/ \E d \in Seqs : SeqCpShare(s, d, p0, p1)
               \/ \E delta \in Deltas : SeqAdd(s, p0, p1, delta)
               \/ \E by \in Divisors : SeqDiv(s, p0, p1, by)
        PROVE  KeyInv'
    <3>1. p0 \in Nat /\ Deltas \subseteq Int /\ Divisors \subseteq Nat \ {0}
      BY ShiftAssumption, BoundAssumption DEF Bounds
    <3> QED  BY <2>5, <3>1, <1>0, SeqRmKeys, SeqCpShareKeys, SeqAddKeys, SeqDivKeys
  <2> QED  BY <1>2, <2>1, <2>2, <2>3, <2>4, <2>5 DEF Calls
<1>3. CASE Decode
  <2>1. ASSUME NEW group \in Groups, NEW n \in 1..MaxUbatch, PlaceUbatch(group, n) PROVE KeyInv'
    BY <2>1, <1>0, TrialKeys
  <2>2. ASSUME NEW group \in Groups, NEW n \in 1..MaxUbatch, PlaceFails(group, n) PROVE KeyInv'
    BY <2>2, <1>0, TrialKeys
  <2> QED  BY <1>0, <1>3, <2>1, <2>2, DecodeStartKeys, CopyStreamKeys, ApplyShiftKeys, UpdateEndKeys,
              TrialKeys, RestoreEndKeys, RunUbatchKeys, RunFailsKeys DEF Decode
<1> QED  BY <1>1, <1>2, <1>3 DEF Next

LEMMA KeyInvFollow == KeyInv => KeysFollow
<1> SUFFICES ASSUME KeyInv, batch.phase \in {"none", "run"}, NEW st \in Seqs,
                    \A k \in 1..Len(copies) : copies[k][2] # st, NEW i \in used[st]
             PROVE  /\ data[st][i].id = cells[st][i].id
                    /\ ~ cells[st][i].divided => Rotated(st, i)
  BY DEF KeysFollow
<1>1. i \in Idx /\ cells[st][i].pos # -1
  BY DEF KeyInv, TrialInv, Inv, BooksOK, UsedOK
<1>2. PICK D : /\ Chain(D, copies, data)
               /\ KeyOK(cells[st][i], D[Len(copies)][st][i])
  BY <1>1 DEF KeyInv, TrialInv, KeysAfter, Visible
<1>3. D[Len(copies)][st] = data[st]
  <2>1. Len(copies) \in Nat
    BY DEF KeyInv, TrialInv, CopiesOK, IsSeq
  <2> QED  BY <1>2, <2>1 DEF Chain
<1> QED  BY <1>1, <1>2, <1>3 DEF KeyOK, Rotated

\* Between batches, and whenever a micro-batch is about to be computed, the key of every used
\* cell is that of its token and, after the pending shift, stands at its position, unless its
\* stream waits to be copied over.  The assumption is what llama_decode needs for its removal
\* of a failed micro-batch to be complete: it removes the first sequence of each token only.
THEOREM KeysInPlace ==
    ASSUME \A g \in Failing : \E s : g = {s}
    PROVE  Spec => []KeysFollow
<1>1. KeyInv /\ [Next]_vars => KeyInv'
  BY KeyStep
<1>2. Init => KeyInv
  BY InitKeys
<1>3. KeyInv => KeysFollow
  BY KeyInvFollow
<1> QED  BY <1>1, <1>2, <1>3, PTL DEF Spec
-----------------------------------------------------------------------------
(***************************************************************************)
(* The cache implements the store of llama.h.                               *)
(*                                                                          *)
(* A token is a used cell's; a call changes the tokens of its stream the way *)
(* the store says because it changes each cell so (Edited).  The trial is not  *)
(* seen, and what it computed is still right when the micro-batches run:    *)
(* FreshOK says of each entry that is not yet computed that its cells are free *)
(* and its positions behind those of its sequences, in the cells the run    *)
(* starts from and in the entries before it; RowsOK that the positions of an *)
(* entry are consecutive, the same number in every stream.                  *)
(***************************************************************************)
Tok(c)    == [id |-> c.id, pos |-> c.pos, seqs |-> c.seq]
Toks(col) == {Tok(col[i]) : i \in {j \in Idx : col[j].pos # -1}}

Column == [Idx -> GoodCell]

Heads == [Seqs -> 0..Size]
HeadsOK == /\ head \in Heads
           /\ \A k \in 1..Len(batch.stack) : Entry(k).heads \in Heads

Bounded(v) == \A st \in Seqs, i \in Idx : v[st][i].pos <= MaxPos
PosOK == /\ Bounded(Visible)
         /\ \A k \in 1..Len(batch.stack), st \in Seqs : \A i \in DOMAIN Entry(k).new[st] :
               Entry(k).new[st][i].pos <= MaxPos

\* the cells of an entry in one stream have n consecutive positions
Row(col, n) ==
    \E from \in Nat : /\ \A x, y \in DOMAIN col : col[x].pos = col[y].pos => x = y
                      /\ \A x \in DOMAIN col : col[x].pos \in from..from + n - 1
                      /\ \A p \in from..from + n - 1 : \E x \in DOMAIN col : col[x].pos = p
Rows(new, n) == \A st \in Seqs : DOMAIN new[st] # {} => Row(new[st], n)
RowsOK == \A k \in 1..Len(batch.stack) : \E n \in 1..MaxPos + 1 : Rows(Entry(k).new, n)

\* a cell that has one of the sequences q stands before p
Before(c, q, p) == c.seq \cap q # {} => c.pos < p

Active  == batch.phase \in {"prepare", "restore", "run"}
Pending == IF batch.phase = "run" THEN batch.at ELSE 1
FreshOK ==
    Active =>
        \A k \in Pending..Len(batch.stack), st \in Seqs : \A i \in DOMAIN Entry(k).new[st] :
            /\ Visible[st][i].pos = -1
            /\ \A x \in Idx : Before(Visible[st][x], Entry(k).new[st][i].seq, Entry(k).new[st][i].pos)
            /\ \A j \in 1..k - 1 :
                  /\ i \notin DOMAIN Entry(j).new[st]
                  /\ \A x \in DOMAIN Entry(j).new[st] :
                        Before(Entry(j).new[st][x], Entry(k).new[st][i].seq, Entry(k).new[st][i].pos)

StoreInv == TrialInv /\ HeadsOK /\ PosOK /\ RowsOK /\ FreshOK

LEMMA ContentIs == Content = [st \in Seqs |-> Toks(Visible[st])]
  BY DEF Content, Toks, Tok

LEMMA InitStore == Init => StoreInv
<1> SUFFICES ASSUME Init PROVE StoreInv
  OBVIOUS
<1>1. TrialInv
  BY InitInv DEF TrialInv, FillsOK, TrialOK, Init, NoBatch
<1>2. batch.phase = "none" /\ Len(batch.stack) = 0 /\ Visible = cells
  BY DEF Init, NoBatch, Visible
<1>3. HeadsOK
  BY <1>2, SizeAssumption DEF Init, HeadsOK, Heads
<1>4. \A st \in Seqs, i \in Idx : cells[st][i].pos = -1
  BY DEF Init, Empty
<1>5. PosOK
  BY <1>2, <1>4, BoundAssumption DEF PosOK, Bounded
<1> QED  BY <1>1, <1>2, <1>3, <1>5 DEF StoreInv, RowsOK, FreshOK, Active

LEMMA InitContent == Init => Store!Init
<1> SUFFICES ASSUME Init PROVE Content = [st \in Seqs |-> {}]
  BY DEF Store!Init
<1>1. Visible = cells
  BY DEF Init, Visible, NoBatch
<1>2. \A st \in Seqs : Toks(cells[st]) = {}
  BY DEF Init, Toks, Empty
<1> QED  BY <1>1, <1>2, ContentIs

\* the least of some cells is one of them
LEMMA LeastCell ==
    ASSUME NEW S, S \subseteq Idx, S # {}
    PROVE  Min(S) \in S /\ \A x \in S : Min(S) <= x
<1>1. S \subseteq Nat
  BY SizeAssumption DEF Idx
<1>2. PICK n \in S : \A m \in S : ~ (<<m, n>> \in OpToRel(<, Nat))
  BY <1>1, WFMin, NatLessThanWellFounded
<1>3. \A m \in S : n <= m
  <2>1. \A m \in S : ~ (m < n)
    BY <1>1, <1>2, Zenon DEF OpToRel
  <2> QED  BY <1>1, <2>1
<1> QED  BY <1>3 DEF Min

LEMMA LowerHeadType ==
    ASSUME HeadsOK, NEW st \in Seqs, NEW freed, freed \subseteq Idx
    PROVE  LowerHead(st, freed) \in 0..Size
<1>1. head[st] \in 0..Size /\ Idx \subseteq 0..Size
  BY SizeAssumption DEF HeadsOK, Heads, Idx
<1>2. freed # {} => Min(freed) \in Idx
  BY LeastCell
<1> QED  BY <1>1, <1>2 DEF LowerHead

\* a row has a last cell, behind which the head moves
LEMMA HeadBehindType ==
    ASSUME HeadsOK, NEW new, Contents(new), NEW n \in Nat \ {0}, Rows(new, n)
    PROVE  HeadBehind(new) \in Heads
<1>1. ASSUME NEW st \in Seqs, DOMAIN new[st] # {} PROVE LastCell(new[st]) + 1 \in 0..Size
  <2>1. PICK from \in Nat : /\ \A x \in DOMAIN new[st] : new[st][x].pos \in from..from + n - 1
                            /\ \A p \in from..from + n - 1 : \E x \in DOMAIN new[st] : new[st][x].pos = p
    BY <1>1 DEF Rows, Row
  <2>2. from + n - 1 \in from..from + n - 1
    OBVIOUS
  <2>3. PICK x \in DOMAIN new[st] : new[st][x].pos = from + n - 1
    BY <2>1, <2>2
  <2>4. \A y \in DOMAIN new[st] : new[st][y].pos <= new[st][x].pos
    BY <2>1, <2>3
  <2>5. LastCell(new[st]) \in DOMAIN new[st]
    BY <2>4 DEF LastCell
  <2>6. LastCell(new[st]) \in Idx
    BY <2>5 DEF Contents
  <2> QED  BY <2>6, SizeAssumption DEF Idx
<1> QED  BY <1>1 DEF HeadBehind, HeadsOK, Heads

-----------------------------------------------------------------------------
(***************************************************************************)
(* The calls.                                                               *)
(***************************************************************************)
\* a call keeps the invariant if the heads and positions stay in their bounds
LEMMA QuietStore ==
    ASSUME StoreInv, TrialInv', batch.phase = "none", batch' = batch, head' \in Heads, Bounded(cells')
    PROVE  StoreInv'
<1>1. Len(batch'.stack) = 0
  BY DEF StoreInv, TrialInv, Inv, BatchOK
<1>2. Visible' = cells'
  BY DEF Visible
<1> QED  BY <1>1, <1>2 DEF StoreInv, HeadsOK, PosOK, RowsOK, FreshOK, Active

LEMMA QuietFacts ==
    ASSUME StoreInv, Quiet
    PROVE  /\ Visible = cells /\ Bounded(cells) /\ CellsOK /\ head \in Heads
           /\ \A st \in Seqs, i \in Idx : cells[st][i] \in GoodCell
<1>1. Visible = cells
  BY DEF Quiet, Visible
<1> QED  BY <1>1 DEF StoreInv, PosOK, HeadsOK, TrialInv, Inv, BooksOK, CellsOK

LEMMA RewriteBounded ==
    ASSUME CellsOK, NEW new, Contents(new), Rewrite(new), Bounded(cells),
           \A st \in Seqs : \A i \in DOMAIN new[st] : new[st][i].pos <= MaxPos
    PROVE  Bounded(cells')
<1>1. \A st \in Seqs, i \in Idx :
         cells'[st][i] = IF i \in DOMAIN new[st] THEN new[st][i] ELSE cells[st][i]
  BY RewriteCells
<1> QED  BY <1>1 DEF Bounded

\* a cell may come into range only of its own position
LEMMA CellsBounded ==
    ASSUME Bounded(cells), CellsOK, NEW st \in Seqs, NEW i \in Idx
    PROVE  cells[st][i].pos \in Int /\ cells[st][i].pos <= MaxPos /\ Empty.pos <= MaxPos
  BY BoundAssumption DEF Bounded, CellsOK, GoodCell, Empty

\* cell b is what edit g makes of cell a
EditsCell(g, a, b) ==
    IF a.pos = -1 THEN b.pos = -1
    ELSE IF b.pos = -1 THEN g[Tok(a)].seqs = {} ELSE g[Tok(a)] = Tok(b)

LEMMA EditedStream ==
    ASSUME batch.phase = "none", batch' = batch, CellsOK, CellsOK', NEW st \in Seqs, NEW g,
           \A x \in Seqs, i \in Idx : x # st => cells'[x][i] = cells[x][i],
           \A i \in Idx : EditsCell(g, cells[st][i], cells'[st][i])
    PROVE  /\ Content[st] = Toks(cells[st])
           /\ Content' = [Content EXCEPT ![st] = {u \in {g[t] : t \in Toks(cells[st])} : u.seqs # {}}]
<1>1. Content = [x \in Seqs |-> Toks(cells[x])] /\ Content' = [x \in Seqs |-> Toks(cells'[x])]
  <2>1. Visible = cells /\ Visible' = cells'
    BY DEF Visible
  <2>2. Content' = [x \in Seqs |-> Toks(Visible'[x])]
    BY DEF Content, Toks, Tok
  <2> QED  BY <2>1, <2>2, ContentIs
<1>2. ASSUME NEW x \in Seqs, x # st PROVE Toks(cells'[x]) = Toks(cells[x])
  BY <1>2 DEF Toks
<1>3. \A i \in Idx : /\ cells'[st][i] \in GoodCell
                     /\ cells'[st][i].pos # -1 => Tok(cells'[st][i]).seqs # {}
  BY DEF CellsOK, GoodCell, Tok
<1>4. Toks(cells'[st]) = {u \in {g[t] : t \in Toks(cells[st])} : u.seqs # {}}
  <2>1. ASSUME NEW u \in Toks(cells'[st]) PROVE u \in {g[t] : t \in Toks(cells[st])} /\ u.seqs # {}
    <3>1. PICK i \in Idx : cells'[st][i].pos # -1 /\ u = Tok(cells'[st][i])
      BY <2>1 DEF Toks
    <3>2. cells[st][i].pos # -1 /\ g[Tok(cells[st][i])] = u
      BY <3>1 DEF EditsCell
    <3>3. Tok(cells[st][i]) \in Toks(cells[st])
      BY <3>2 DEF Toks
    <3> QED  BY <1>3, <3>1, <3>2, <3>3
  <2>2. ASSUME NEW t \in Toks(cells[st]), g[t].seqs # {} PROVE g[t] \in Toks(cells'[st])
    <3>1. PICK i \in Idx : cells[st][i].pos # -1 /\ t = Tok(cells[st][i])
      BY <2>2 DEF Toks
    <3>2. cells'[st][i].pos # -1 /\ g[t] = Tok(cells'[st][i])
      BY <2>2, <3>1 DEF EditsCell
    <3> QED  BY <3>2 DEF Toks
  <2> QED  BY <2>1, <2>2
<1> QED  BY <1>1, <1>2, <1>4

LEMMA ClearStore ==
    ASSUME StoreInv, TrialInv', Clear
    PROVE  StoreInv' /\ Store!Clear
<1>1. /\ batch.phase = "none" /\ batch' = batch
      /\ \A st \in Seqs, i \in Idx : cells'[st][i] = Empty
      /\ head' = [st \in Seqs |-> 0]
  BY DEF Clear, Quiet, CallDone
<1>2. Bounded(cells') /\ head' \in Heads
  BY <1>1, BoundAssumption, SizeAssumption DEF Bounded, Empty, Heads
<1>3. Content' = [st \in Seqs |-> {}]
  <2>1. Content' = [st \in Seqs |-> Toks(cells'[st])]
    BY <1>1 DEF Content, Visible, Toks, Tok
  <2>2. \A st \in Seqs : Toks(cells'[st]) = {}
    BY <1>1 DEF Toks, Empty
  <2> QED  BY <2>1, <2>2
<1>4. StoreInv'
  BY <1>1, <1>2, QuietStore
<1> QED  BY <1>3, <1>4 DEF Store!Clear

\* a call rewrites the hit cells of stream st; each of its cells changes as edit g says
StreamEdit(st, hit, new, g) ==
    /\ Quiet /\ CallDone
    /\ st \in Seqs /\ hit \subseteq Idx
    /\ Contents(new) /\ Rewrite(new)
    /\ \A x \in Seqs : DOMAIN new[x] = IF x = st THEN hit ELSE {}
    /\ \A i \in hit : new[st][i].pos <= MaxPos /\ EditsCell(g, cells[st][i], new[st][i])
    /\ \A i \in Idx \ hit : cells[st][i].pos # -1 => g[Tok(cells[st][i])] = Tok(cells[st][i])
    /\ head' \in Heads

LEMMA StreamStore ==
    ASSUME StoreInv, TrialInv', NEW st, NEW hit, NEW new, NEW g, StreamEdit(st, hit, new, g)
    PROVE  /\ StoreInv'
           /\ Content[st] = Toks(cells[st])
           /\ Content' = [Content EXCEPT ![st] = {u \in {g[t] : t \in Toks(cells[st])} : u.seqs # {}}]
<1> USE DEF StreamEdit
<1>1. batch.phase = "none" /\ batch' = batch /\ CellsOK'
  BY DEF Quiet, CallDone, TrialInv, Inv, BooksOK
<1>2. \A x \in Seqs, i \in Idx :
         cells'[x][i] = IF i \in DOMAIN new[x] THEN new[x][i] ELSE cells[x][i]
  BY QuietFacts, RewriteCells
<1>3. Bounded(cells')
  BY QuietFacts, RewriteBounded
<1>4. \A x \in Seqs, i \in Idx : x # st => cells'[x][i] = cells[x][i]
  BY <1>2
<1>5. \A i \in Idx : EditsCell(g, cells[st][i], cells'[st][i])
  BY <1>2 DEF EditsCell
<1>6. StoreInv'
  BY <1>1, <1>3, QuietStore
<1> QED  BY <1>1, <1>4, <1>5, <1>6, QuietFacts, EditedStream

\* a cell without a sequence keeps its position or is freed
LEMMA LessTok ==
    ASSUME NEW c \in GoodCell, NEW s
    PROVE  /\ Less(c, s).pos = c.pos \/ Less(c, s).pos = -1
           /\ Less(c, s).pos = -1 => c.seq \ {s} = {}
           /\ Less(c, s).pos # -1 => Tok(Less(c, s)) = [Tok(c) EXCEPT !.seqs = @ \ {s}]
<1>1. CASE c.seq \subseteq {s}
  BY <1>1 DEF Less, Empty
<1>2. CASE ~ (c.seq \subseteq {s})
  <2> DEFINE m == [c EXCEPT !.seq = @ \ {s}]
  <2>1. m.id = c.id /\ m.pos = c.pos /\ m.seq = c.seq \ {s} /\ Less(c, s) = m
    BY <1>2 DEF Less, GoodCell
  <2>2. c.pos # -1
    BY <1>2 DEF GoodCell
  <2> QED  BY <2>1, <2>2 DEF Tok
<1> QED  BY <1>1, <1>2

LEMMA SeqRmStore ==
    ASSUME StoreInv, TrialInv', NEW s \in Seqs, NEW p0 \in Nat, NEW p1 \in Nat, SeqRm(s, p0, p1)
    PROVE  StoreInv' /\ Store!Remove(StreamOf(s), s, p0, p1)
<1> DEFINE st == StreamOf(s)
           hit == Hit(st, s, p0, p1)
           new == [x \in Seqs |-> [i \in (IF x = st THEN hit ELSE {}) |-> Less(cells[x][i], s)]]
           freed == {i \in hit : cells[st][i].seq = {s}}
           change(t) == IF Store!Within(t, s, p0, p1) THEN [t EXCEPT !.seqs = @ \ {s}] ELSE t
           g == [t \in Toks(cells[st]) |-> change(t)]
<1>1. /\ Quiet /\ CallDone /\ st \in Seqs /\ hit \subseteq Idx /\ freed \subseteq Idx
      /\ \A i \in hit : cells[st][i] \in GoodCell
      /\ Rewrite(new) /\ head' = [head EXCEPT ![st] = LowerHead(st, freed)]
  BY StreamType, HitType, QuietFacts DEF SeqRm, RewriteStream
<1>2. \A i \in Idx : i \in hit <=> Store!Within(Tok(cells[st][i]), s, p0, p1)
  BY DEF Hit, InRange, Store!Within, Tok
<1>3. \A i \in hit : i \in Idx /\ cells[st][i].pos # -1
  BY DEF Hit, InRange
<1>a. \A i \in Idx : cells[st][i].pos # -1 => g[Tok(cells[st][i])] = change(Tok(cells[st][i]))
  BY DEF Toks
<1>4. \A i \in hit : new[st][i] = Less(cells[st][i], s)
  BY <1>1
<1>5. Contents(new) /\ \A x \in Seqs : DOMAIN new[x] = IF x = st THEN hit ELSE {}
  BY <1>1, LessGood DEF Contents
<1>6. \A t \in Toks(cells[st]) : g[t] = change(t)
  OBVIOUS
<1> HIDE DEF hit, new, freed, g, st
<1>7. head' \in Heads
  BY <1>1, QuietFacts, LowerHeadType DEF StoreInv, Heads
<1>8. ASSUME NEW i \in hit PROVE new[st][i].pos <= MaxPos /\ EditsCell(g, cells[st][i], new[st][i])
  <2> DEFINE c == cells[st][i]
  <2>1. c \in GoodCell /\ c.pos <= MaxPos /\ -1 <= MaxPos /\ c.pos # -1
    BY <1>1, <1>3, QuietFacts, CellsBounded DEF Empty
  <2>2. g[Tok(c)] = [Tok(c) EXCEPT !.seqs = @ \ {s}] /\ [Tok(c) EXCEPT !.seqs = @ \ {s}].seqs = c.seq \ {s}
    BY <1>2, <1>3, <1>a, <2>1 DEF Tok
  <2> HIDE DEF c
  <2>3. Less(c, s).pos <= MaxPos /\ EditsCell(g, c, Less(c, s))
    BY <2>1, <2>2, LessTok DEF EditsCell
  <2> QED  BY <2>3, <1>4 DEF c
<1>9. \A i \in Idx \ hit : cells[st][i].pos # -1 => g[Tok(cells[st][i])] = Tok(cells[st][i])
  BY <1>2, <1>a
<1>10. /\ StoreInv' /\ Content[st] = Toks(cells[st])
       /\ Content' = [Content EXCEPT ![st] = {u \in {g[t] : t \in Toks(cells[st])} : u.seqs # {}}]
  <2>1. StreamEdit(st, hit, new, g)
    BY <1>1, <1>5, <1>7, <1>8, <1>9 DEF StreamEdit
  <2> QED  BY <2>1, StreamStore
<1>11. {g[t] : t \in Toks(cells[st])} = {change(t) : t \in Toks(cells[st])}
  BY <1>6
<1>12. Store!Remove(st, s, p0, p1)
  BY <1>10, <1>11 DEF Store!Remove, Store!Edit
<1> QED  BY <1>10, <1>12 DEF st

LEMMA SeqCpShareStore ==
    ASSUME StoreInv, TrialInv', NEW s \in Seqs, NEW d \in Seqs, NEW p0 \in Nat, NEW p1 \in Nat,
           SeqCpShare(s, d, p0, p1)
    PROVE  StoreInv' /\ Store!Share(StreamOf(s), s, d, p0, p1)
<1> DEFINE st == StreamOf(s)
           hit == Hit(st, s, p0, p1)
           shared(c) == [c EXCEPT !.seq = @ \cup {d}]
           new == [x \in Seqs |-> [i \in (IF x = st THEN hit ELSE {}) |-> shared(cells[x][i])]]
           change(t) == IF Store!Within(t, s, p0, p1) THEN [t EXCEPT !.seqs = @ \cup {d}] ELSE t
           g == [t \in Toks(cells[st]) |-> change(t)]
<1>1. /\ Quiet /\ CallDone /\ st \in Seqs /\ hit \subseteq Idx
      /\ \A i \in hit : cells[st][i] \in GoodCell
      /\ Rewrite(new) /\ head' = head
  BY StreamType, HitType, QuietFacts DEF SeqCpShare, RewriteStream
<1>2. \A i \in Idx : i \in hit <=> Store!Within(Tok(cells[st][i]), s, p0, p1)
  BY DEF Hit, InRange, Store!Within, Tok
<1>3. \A i \in hit : i \in Idx /\ cells[st][i].pos # -1
  BY DEF Hit, InRange
<1>4. \A i \in Idx : cells[st][i].pos # -1 => g[Tok(cells[st][i])] = change(Tok(cells[st][i]))
  BY DEF Toks
<1>5. \A i \in hit : new[st][i] = shared(cells[st][i])
  BY <1>1
<1>6. \A c \in GoodCell : c.pos # -1 => /\ shared(c) \in GoodCell /\ shared(c).pos = c.pos
                                        /\ Tok(shared(c)) = [Tok(c) EXCEPT !.seqs = @ \cup {d}]
  BY DEF GoodCell, Tok
<1> HIDE DEF shared
<1>7. Contents(new) /\ \A x \in Seqs : DOMAIN new[x] = IF x = st THEN hit ELSE {}
  BY <1>1, <1>3, <1>6 DEF Contents
<1>8. \A t \in Toks(cells[st]) : g[t] = change(t)
  OBVIOUS
<1> HIDE DEF hit, new, g, st
<1>9. ASSUME NEW i \in hit PROVE new[st][i].pos <= MaxPos /\ EditsCell(g, cells[st][i], new[st][i])
  <2> DEFINE c == cells[st][i]
  <2>1. c \in GoodCell /\ c.pos <= MaxPos /\ c.pos # -1
    BY <1>1, <1>3, QuietFacts, CellsBounded
  <2>2. g[Tok(c)] = [Tok(c) EXCEPT !.seqs = @ \cup {d}]
    BY <1>2, <1>3, <1>4, <2>1
  <2> HIDE DEF c
  <2>3. shared(c).pos <= MaxPos /\ EditsCell(g, c, shared(c))
    BY <1>6, <2>1, <2>2 DEF EditsCell
  <2> QED  BY <2>3, <1>5 DEF c
<1>10. \A i \in Idx \ hit : cells[st][i].pos # -1 => g[Tok(cells[st][i])] = Tok(cells[st][i])
  BY <1>2, <1>4
<1>11. /\ StoreInv' /\ Content[st] = Toks(cells[st])
       /\ Content' = [Content EXCEPT ![st] = {u \in {g[t] : t \in Toks(cells[st])} : u.seqs # {}}]
  <2>1. StreamEdit(st, hit, new, g)
    BY <1>1, <1>7, <1>9, <1>10, QuietFacts DEF StreamEdit
  <2> QED  BY <2>1, StreamStore
<1>12. {g[t] : t \in Toks(cells[st])} = {change(t) : t \in Toks(cells[st])}
  BY <1>8
<1>13. Store!Share(st, s, d, p0, p1)
  BY <1>11, <1>12 DEF Store!Share, Store!Edit
<1> QED  BY <1>11, <1>13 DEF st

LEMMA SeqKeepStore ==
    ASSUME StoreInv, TrialInv', NEW s \in Seqs, SeqKeep(s)
    PROVE  StoreInv' /\ Store!Keep(StreamOf(s), s)
<1> DEFINE st == StreamOf(s)
           hit == used[st]
           kept(c) == IF s \in c.seq THEN [c EXCEPT !.seq = {s}] ELSE Empty
           new == [x \in Seqs |-> [i \in (IF x = st THEN hit ELSE {}) |-> kept(cells[x][i])]]
           freed == {i \in hit : s \notin cells[st][i].seq}
           change(t) == [t EXCEPT !.seqs = @ \cap {s}]
           g == [t \in Toks(cells[st]) |-> change(t)]
<1>1. /\ Quiet /\ CallDone /\ st \in Seqs
      /\ Rewrite(new) /\ head' = [head EXCEPT ![st] = LowerHead(st, freed)]
  BY StreamType DEF SeqKeep, RewriteStream
<1>2. hit = {i \in Idx : cells[st][i].pos # -1} /\ \A i \in Idx : cells[st][i] \in GoodCell
  BY <1>1, QuietFacts DEF StoreInv, TrialInv, Inv, BooksOK, UsedOK
<1>3. \A c \in GoodCell : c.pos # -1 =>
          /\ kept(c) \in GoodCell
          /\ kept(c).pos = -1 => Tok(c).seqs \cap {s} = {}
          /\ kept(c).pos # -1 => kept(c).pos = c.pos /\ Tok(kept(c)) = change(Tok(c))
          /\ change(Tok(c)).seqs = Tok(c).seqs \cap {s}
  <2> SUFFICES ASSUME NEW c \in GoodCell, c.pos # -1
               PROVE  /\ kept(c) \in GoodCell
                      /\ kept(c).pos = -1 => Tok(c).seqs \cap {s} = {}
                      /\ kept(c).pos # -1 => kept(c).pos = c.pos /\ Tok(kept(c)) = change(Tok(c))
                      /\ change(Tok(c)).seqs = Tok(c).seqs \cap {s}
    OBVIOUS
  <2>1. CASE s \in c.seq
    <3>1. c.seq \cap {s} = {s}
      BY <2>1
    <3>2. [c EXCEPT !.seq = {s}] \in GoodCell
      BY <2>1 DEF GoodCell
    <3> QED  BY <2>1, <3>1, <3>2 DEF GoodCell, Tok
  <2>2. CASE s \notin c.seq
    <3>1. c.seq \cap {s} = {}
      BY <2>2
    <3> QED  BY <2>2, <3>1, EmptyGood DEF Empty, Tok
  <2> QED  BY <2>1, <2>2
<1>4. \A i \in Idx : cells[st][i].pos # -1 => g[Tok(cells[st][i])] = change(Tok(cells[st][i]))
  BY DEF Toks
<1>5. \A i \in hit : new[st][i] = kept(cells[st][i])
  BY <1>1
<1> HIDE DEF kept
<1>6. Contents(new) /\ \A x \in Seqs : DOMAIN new[x] = IF x = st THEN hit ELSE {}
  BY <1>1, <1>2, <1>3 DEF Contents
<1>7. \A t \in Toks(cells[st]) : g[t] = change(t)
  OBVIOUS
<1>8. freed \subseteq Idx /\ hit \subseteq Idx
  BY <1>2
<1> HIDE DEF hit, new, g, st, change, freed
<1>9. head' \in Heads
  BY <1>1, <1>8, QuietFacts, LowerHeadType DEF StoreInv, Heads
<1>10. ASSUME NEW i \in hit PROVE new[st][i].pos <= MaxPos /\ EditsCell(g, cells[st][i], new[st][i])
  <2> DEFINE c == cells[st][i]
  <2>1. c \in GoodCell /\ c.pos <= MaxPos /\ c.pos # -1 /\ -1 <= MaxPos
    BY <1>1, <1>2, QuietFacts, CellsBounded DEF Empty
  <2>2. g[Tok(c)] = change(Tok(c))
    BY <1>2, <1>4
  <2> HIDE DEF c
  <2>3. kept(c).pos <= MaxPos /\ EditsCell(g, c, kept(c))
    BY <1>3, <2>1, <2>2 DEF EditsCell
  <2> QED  BY <2>3, <1>5 DEF c
<1>11. \A i \in Idx \ hit : cells[st][i].pos # -1 => g[Tok(cells[st][i])] = Tok(cells[st][i])
  BY <1>2
<1>12. /\ StoreInv' /\ Content[st] = Toks(cells[st])
       /\ Content' = [Content EXCEPT ![st] = {u \in {g[t] : t \in Toks(cells[st])} : u.seqs # {}}]
  <2>1. StreamEdit(st, hit, new, g)
    BY <1>1, <1>6, <1>8, <1>9, <1>10, <1>11 DEF StreamEdit
  <2> QED  BY <2>1, StreamStore
<1>13. {g[t] : t \in Toks(cells[st])} = {change(t) : t \in Toks(cells[st])}
  BY <1>7
<1>14. Store!Keep(st, s)
  BY <1>12, <1>13 DEF Store!Keep, Store!Edit, change
<1> QED  BY <1>12, <1>14 DEF st

LEMMA SeqAddStore ==
    ASSUME StoreInv, TrialInv', NEW s \in Seqs, NEW p0 \in Nat, NEW p1 \in Nat, NEW delta \in Int,
           SeqAdd(s, p0, p1, delta)
    PROVE  StoreInv' /\ Store!Shift(StreamOf(s), s, p0, p1, delta)
<1> DEFINE st == StreamOf(s)
           hit == Hit(st, s, p0, p1)
           new == [x \in Seqs |-> [i \in (IF x = st THEN hit ELSE {}) |-> Moved(cells[x][i], delta)]]
           freed == {i \in hit : cells[st][i].pos + delta < 0}
           change(t) == IF ~ Store!Within(t, s, p0, p1) THEN t
                        ELSE IF t.pos + delta < 0 THEN [t EXCEPT !.seqs = {}]
                        ELSE [t EXCEPT !.pos = @ + delta]
           g == [t \in Toks(cells[st]) |-> change(t)]
<1>1. /\ Quiet /\ CallDone /\ st \in Seqs /\ hit \subseteq Idx /\ freed \subseteq Idx
      /\ \A i \in hit : cells[st][i] \in GoodCell /\ cells[st][i].pos + delta <= MaxPos
      /\ Rewrite(new) /\ head' = [head EXCEPT ![st] = IF freed # {} THEN Min(freed) ELSE 0]
  BY StreamType, HitType, QuietFacts DEF SeqAdd, RewriteStream
<1>2. \A i \in Idx : i \in hit <=> Store!Within(Tok(cells[st][i]), s, p0, p1)
  BY DEF Hit, InRange, Store!Within, Tok
<1>3. \A i \in hit : i \in Idx /\ cells[st][i].pos # -1 /\ cells[st][i].pos >= p0
  BY DEF Hit, InRange
<1>4. \A i \in Idx : cells[st][i].pos # -1 => g[Tok(cells[st][i])] = change(Tok(cells[st][i]))
  BY DEF Toks
<1>5. \A i \in hit : new[st][i] = Moved(cells[st][i], delta)
  BY <1>1
<1>6. Contents(new) /\ \A x \in Seqs : DOMAIN new[x] = IF x = st THEN hit ELSE {}
  BY <1>1, <1>3, AddGood DEF Contents
<1>7. \A t \in Toks(cells[st]) : g[t] = change(t)
  OBVIOUS
<1> HIDE DEF hit, new, g, st, freed
<1>8. head' \in Heads
  <2>1. (IF freed # {} THEN Min(freed) ELSE 0) \in 0..Size
    <3>1. freed # {} => Min(freed) \in Idx
      BY <1>1, LeastCell
    <3>2. Idx \subseteq 0..Size /\ 0 \in 0..Size
      BY SizeAssumption DEF Idx
    <3> QED  BY <3>1, <3>2
  <2> QED  BY <1>1, <2>1, QuietFacts DEF Heads
<1>9. ASSUME NEW i \in hit PROVE new[st][i].pos <= MaxPos /\ EditsCell(g, cells[st][i], new[st][i])
  <2> DEFINE c == cells[st][i]
  <2>1. c \in GoodCell /\ c.pos + delta <= MaxPos /\ c.pos # -1 /\ -1 <= MaxPos
    BY <1>1, <1>3, QuietFacts, CellsBounded DEF Empty
  <2>2. g[Tok(c)] = IF c.pos + delta < 0 THEN [Tok(c) EXCEPT !.seqs = {}]
                                         ELSE [Tok(c) EXCEPT !.pos = @ + delta]
    BY <1>2, <1>3, <1>4, <2>1 DEF Tok
  <2> HIDE DEF c
  <2>3. Moved(c, delta).pos <= MaxPos /\ EditsCell(g, c, Moved(c, delta))
    <3>1. CASE c.pos + delta < 0
      <4>1. g[Tok(c)].seqs = {}
        BY <3>1, <2>2 DEF Tok
      <4>2. Moved(c, delta) = Empty
        BY <3>1 DEF Moved
      <4> QED  BY <2>1, <4>1, <4>2 DEF EditsCell, Empty
    <3>2. CASE ~ (c.pos + delta < 0)
      <4> DEFINE m == [c EXCEPT !.pos = @ + delta, !.shift = @ + delta]
      <4>1. m.pos = c.pos + delta /\ m.seq = c.seq /\ m.id = c.id
        BY DEF GoodCell
      <4>2. Moved(c, delta) = m
        BY <3>2 DEF Moved
      <4>3. g[Tok(c)] = [id |-> c.id, pos |-> c.pos + delta, seqs |-> c.seq]
        BY <3>2, <2>2 DEF Tok
      <4>4. c.pos + delta # -1
        BY <2>1, <3>2 DEF GoodCell
      <4> HIDE DEF m
      <4> QED  BY <2>1, <4>1, <4>2, <4>3, <4>4 DEF EditsCell, Tok
    <3> QED  BY <3>1, <3>2
  <2> QED  BY <2>3, <1>5 DEF c
<1>10. \A i \in Idx \ hit : cells[st][i].pos # -1 => g[Tok(cells[st][i])] = Tok(cells[st][i])
  BY <1>2, <1>4
<1>11. /\ StoreInv' /\ Content[st] = Toks(cells[st])
       /\ Content' = [Content EXCEPT ![st] = {u \in {g[t] : t \in Toks(cells[st])} : u.seqs # {}}]
  <2>1. StreamEdit(st, hit, new, g)
    BY <1>1, <1>6, <1>8, <1>9, <1>10 DEF StreamEdit
  <2> QED  BY <2>1, StreamStore
<1>12. {g[t] : t \in Toks(cells[st])} = {change(t) : t \in Toks(cells[st])}
  BY <1>7
<1>13. Store!Shift(st, s, p0, p1, delta)
  BY <1>11, <1>12 DEF Store!Shift, Store!Edit
<1> QED  BY <1>11, <1>13 DEF st

LEMMA SeqDivStore ==
    ASSUME StoreInv, TrialInv', NEW s \in Seqs, NEW p0 \in Nat, NEW p1 \in Nat,
           NEW by \in Nat \ {0}, SeqDiv(s, p0, p1, by)
    PROVE  StoreInv' /\ Store!Divide(StreamOf(s), s, p0, p1, by)
<1> DEFINE st == StreamOf(s)
           hit == Hit(st, s, p0, p1)
           new == [x \in Seqs |-> [i \in (IF x = st THEN hit ELSE {}) |-> Divided(cells[x][i], by)]]
           change(t) == IF Store!Within(t, s, p0, p1) THEN [t EXCEPT !.pos = @ \div by] ELSE t
           g == [t \in Toks(cells[st]) |-> change(t)]
<1>1. /\ Quiet /\ CallDone /\ st \in Seqs /\ hit \subseteq Idx
      /\ \A i \in hit : cells[st][i] \in GoodCell
      /\ Rewrite(new) /\ head' = head
  BY StreamType, HitType, QuietFacts DEF SeqDiv, RewriteStream
<1>2. \A i \in Idx : i \in hit <=> Store!Within(Tok(cells[st][i]), s, p0, p1)
  BY DEF Hit, InRange, Store!Within, Tok
<1>3. \A i \in hit : i \in Idx /\ cells[st][i].pos # -1 /\ cells[st][i].pos >= p0
  BY DEF Hit, InRange
<1>4. \A i \in Idx : cells[st][i].pos # -1 => g[Tok(cells[st][i])] = change(Tok(cells[st][i]))
  BY DEF Toks
<1>5. \A i \in hit : new[st][i] = Divided(cells[st][i], by)
  BY <1>1
<1>6. Contents(new) /\ \A x \in Seqs : DOMAIN new[x] = IF x = st THEN hit ELSE {}
  BY <1>1, <1>3, DivGood DEF Contents
<1>7. \A t \in Toks(cells[st]) : g[t] = change(t)
  OBVIOUS
<1> HIDE DEF hit, new, g, st
<1>8. \A n \in Nat : n \div by \in Nat /\ n \div by <= n
  OBVIOUS
<1>9. ASSUME NEW i \in hit PROVE new[st][i].pos <= MaxPos /\ EditsCell(g, cells[st][i], new[st][i])
  <2> DEFINE c == cells[st][i]
             p == c.pos \div by
  <2>1. c \in GoodCell /\ c.pos <= MaxPos /\ c.pos \in Nat /\ p \in Nat /\ p <= c.pos
    <3>1. c \in GoodCell /\ c.pos <= MaxPos /\ c.pos # -1
      BY <1>1, <1>3, QuietFacts, CellsBounded
    <3>2. c.pos \in Nat
      BY <3>1 DEF GoodCell
    <3> QED  BY <1>8, <3>1, <3>2
  <2>2. g[Tok(c)] = [id |-> c.id, pos |-> p, seqs |-> c.seq]
    <3>1. g[Tok(c)] = [Tok(c) EXCEPT !.pos = @ \div by]
      BY <1>2, <1>3, <1>4, <2>1
    <3> QED  BY <3>1 DEF Tok
  <2>3. Divided(c, by).pos = p /\ Divided(c, by).seq = c.seq /\ Divided(c, by).id = c.id
    BY <2>1 DEF Divided, GoodCell
  <2> HIDE DEF c, p
  <2>4. Divided(c, by).pos <= MaxPos /\ EditsCell(g, c, Divided(c, by))
    BY <2>1, <2>2, <2>3, BoundAssumption DEF EditsCell, Tok
  <2> QED  BY <2>4, <1>5 DEF c
<1>10. \A i \in Idx \ hit : cells[st][i].pos # -1 => g[Tok(cells[st][i])] = Tok(cells[st][i])
  BY <1>2, <1>4
<1>11. /\ StoreInv' /\ Content[st] = Toks(cells[st])
       /\ Content' = [Content EXCEPT ![st] = {u \in {g[t] : t \in Toks(cells[st])} : u.seqs # {}}]
  <2>1. StreamEdit(st, hit, new, g)
    BY <1>1, <1>6, <1>9, <1>10, QuietFacts DEF StreamEdit
  <2> QED  BY <2>1, StreamStore
<1>12. {g[t] : t \in Toks(cells[st])} = {change(t) : t \in Toks(cells[st])}
  BY <1>7
<1>13. Store!Divide(st, s, p0, p1, by)
  BY <1>11, <1>12 DEF Store!Divide, Store!Edit
<1> QED  BY <1>11, <1>13 DEF st

LEMMA SeqRmAnyStore ==
    ASSUME StoreInv, TrialInv', NEW p0 \in Nat, NEW p1 \in Nat, SeqRmAny(p0, p1)
    PROVE  StoreInv' /\ Store!RemoveAny(p0, p1)
<1> DEFINE hit == [st \in Seqs |-> {i \in Idx : InRange(cells[st][i], p0, p1)}]
           new == [st \in Seqs |-> [i \in hit[st] |-> Empty]]
<1>1. /\ batch.phase = "none" /\ batch' = batch /\ Rewrite(new) /\ Quiet
      /\ head' = [st \in Seqs |-> LowerHead(st, hit[st])]
  BY DEF SeqRmAny, Quiet, CallDone
<1>2. Contents(new) /\ \A st \in Seqs : hit[st] \subseteq Idx
  BY EmptyGood DEF Contents
<1>3. \A st \in Seqs, i \in Idx :
         cells'[st][i] = IF InRange(cells[st][i], p0, p1) THEN Empty ELSE cells[st][i]
  <2>1. \A st \in Seqs, i \in Idx :
           cells'[st][i] = IF i \in DOMAIN new[st] THEN new[st][i] ELSE cells[st][i]
    BY <1>1, <1>2, QuietFacts, RewriteCells
  <2>2. \A st \in Seqs, i \in Idx : /\ i \in DOMAIN new[st] <=> InRange(cells[st][i], p0, p1)
                                    /\ i \in DOMAIN new[st] => new[st][i] = Empty
    OBVIOUS
  <2> QED  BY <2>1, <2>2
<1> HIDE DEF hit, new
<1>4. Bounded(cells') /\ head' \in Heads
  <2>1. Bounded(cells')
    BY <1>1, <1>3, QuietFacts, BoundAssumption DEF Bounded, Empty
  <2> QED  BY <1>1, <1>2, <2>1, LowerHeadType DEF StoreInv, Heads
<1>5. StoreInv'
  BY <1>1, <1>4, QuietStore
<1>6. ASSUME NEW st \in Seqs
      PROVE  Toks(cells'[st]) = {t \in Toks(cells[st]) : ~ (t.pos >= p0 /\ t.pos < p1)}
  <2>1. \A i \in Idx : /\ cells'[st][i].pos # -1 <=> /\ cells[st][i].pos # -1
                                                    /\ ~ (Tok(cells[st][i]).pos >= p0 /\ Tok(cells[st][i]).pos < p1)
                       /\ cells'[st][i].pos # -1 => cells'[st][i] = cells[st][i]
    BY <1>3 DEF InRange, Empty, Tok
  <2> QED  BY <2>1 DEF Toks
<1>7. Content' = [st \in Seqs |-> Toks(cells'[st])] /\ \A st \in Seqs : Content[st] = Toks(cells[st])
  <2>1. Visible = cells /\ Visible' = cells'
    BY <1>1 DEF Visible
  <2> QED  BY <2>1 DEF Content, Toks, Tok
<1>8. Store!RemoveAny(p0, p1)
  BY <1>6, <1>7 DEF Store!RemoveAny
<1> QED  BY <1>5, <1>8

LEMMA SeqCpStreamStore ==
    ASSUME StoreInv, TrialInv', NEW s \in Seqs, NEW d \in Seqs, SeqCpStream(s, d)
    PROVE  StoreInv' /\ Store!Duplicate(s, s, d, d)
<1> DEFINE from == cells[s]
           copied(i) == IF s \in from[i].seq THEN [from[i] EXCEPT !.seq = {d}] ELSE Empty
           new == [st \in Seqs |-> [i \in (IF st = d THEN Idx ELSE {}) |-> copied(i)]]
<1>1. /\ batch.phase = "none" /\ batch' = batch /\ Quiet
      /\ head' = [head EXCEPT ![d] = head[s]]
  BY DEF SeqCpStream, Quiet, CallDone
<1>2. Rewrite(new)
  BY DEF SeqCpStream
<1>3. \A i \in Idx : from[i] \in GoodCell /\ from[i].pos <= MaxPos /\ -1 <= MaxPos
  BY <1>1, QuietFacts, CellsBounded DEF Empty
<1>4. \A i \in Idx :
         /\ copied(i) \in GoodCell /\ copied(i).pos <= MaxPos
         /\ copied(i).pos # -1 <=> s \in from[i].seq
         /\ s \in from[i].seq => from[i].pos # -1 /\ Tok(copied(i)) = [Tok(from[i]) EXCEPT !.seqs = {d}]
  <2> TAKE i \in Idx
  <2>1. CASE s \in from[i].seq
    <3>1. from[i].pos # -1 /\ [from[i] EXCEPT !.seq = {d}] \in GoodCell
      BY <1>3, <2>1 DEF GoodCell
    <3> QED  BY <1>3, <2>1, <3>1 DEF GoodCell, Tok
  <2>2. CASE s \notin from[i].seq
    BY <1>3, <2>2, EmptyGood DEF Empty
  <2> QED  BY <2>1, <2>2
<1> HIDE DEF copied
<1>5. Contents(new) /\ \A st \in Seqs : DOMAIN new[st] = IF st = d THEN Idx ELSE {}
  BY <1>4 DEF Contents
<1>6. \A i \in Idx : new[d][i] = copied(i)
  OBVIOUS
<1> HIDE DEF new
<1>7. \A st \in Seqs, i \in Idx : cells'[st][i] = IF st = d THEN copied(i) ELSE cells[st][i]
  <2>1. \A st \in Seqs, i \in Idx :
           cells'[st][i] = IF i \in DOMAIN new[st] THEN new[st][i] ELSE cells[st][i]
    BY <1>1, <1>2, <1>5, QuietFacts, RewriteCells
  <2> QED  BY <2>1, <1>5, <1>6
<1>8. Bounded(cells') /\ head' \in Heads
  BY <1>1, <1>4, <1>7, QuietFacts DEF Bounded, Heads
<1>9. StoreInv'
  BY <1>1, <1>8, QuietStore
<1>10. ASSUME NEW st \in Seqs, st # d PROVE Toks(cells'[st]) = Toks(cells[st])
  BY <1>7, <1>10 DEF Toks
<1>11. Toks(cells'[d]) = {[t EXCEPT !.seqs = {d}] : t \in {u \in Toks(from) : s \in u.seqs}}
  <2>1. \A i \in Idx : /\ cells'[d][i].pos # -1 <=> s \in Tok(from[i]).seqs
                       /\ s \in Tok(from[i]).seqs => /\ from[i].pos # -1
                                                     /\ Tok(cells'[d][i]) = [Tok(from[i]) EXCEPT !.seqs = {d}]
    BY <1>4, <1>7 DEF Tok
  <2>2. ASSUME NEW u \in Toks(cells'[d])
        PROVE  u \in {[t EXCEPT !.seqs = {d}] : t \in {v \in Toks(from) : s \in v.seqs}}
    <3>1. PICK i \in Idx : cells'[d][i].pos # -1 /\ u = Tok(cells'[d][i])
      BY <2>2 DEF Toks
    <3>2. Tok(from[i]) \in Toks(from) /\ s \in Tok(from[i]).seqs /\ u = [Tok(from[i]) EXCEPT !.seqs = {d}]
      BY <2>1, <3>1 DEF Toks
    <3> QED  BY <3>2
  <2>3. ASSUME NEW t \in Toks(from), s \in t.seqs PROVE [t EXCEPT !.seqs = {d}] \in Toks(cells'[d])
    <3>1. PICK i \in Idx : from[i].pos # -1 /\ t = Tok(from[i])
      BY <2>3 DEF Toks
    <3>2. cells'[d][i].pos # -1 /\ Tok(cells'[d][i]) = [t EXCEPT !.seqs = {d}]
      BY <2>1, <2>3, <3>1
    <3>3. Tok(cells'[d][i]) \in Toks(cells'[d])
      BY <3>2 DEF Toks
    <3> QED  BY <3>2, <3>3
  <2> QED  BY <2>2, <2>3
<1>12. Content = [st \in Seqs |-> Toks(cells[st])] /\ Content' = [st \in Seqs |-> Toks(cells'[st])]
  <2>1. Visible = cells /\ Visible' = cells'
    BY <1>1 DEF Visible
  <2>2. Content' = [st \in Seqs |-> Toks(Visible'[st])]
    BY DEF Content, Toks, Tok
  <2> QED  BY <2>1, <2>2, ContentIs
<1>13. Store!Duplicate(s, s, d, d)
  <2>1. Content' = [Content EXCEPT ![d] = Toks(cells'[d])]
    BY <1>10, <1>12
  <2> QED  BY <1>11, <1>12, <2>1 DEF Store!Duplicate
<1> QED  BY <1>9, <1>13

-----------------------------------------------------------------------------
(***************************************************************************)
(* The placement: the cells of a slot, in the order of the search, are a row. *)
(***************************************************************************)
\* counting the elements before each one numbers a finite set from 0
LEMMA Ranking ==
    ASSUME NEW E, IsFiniteSet(E), NEW d \in [E -> Int], \A x, y \in E : d[x] = d[y] => x = y
    PROVE  [i \in E |-> Cardinality({j \in E : d[j] < d[i]})] \in Bijection(E, 0..Cardinality(E) - 1)
<1> DEFINE B == [i \in E |-> {j \in E : d[j] < d[i]}]
           r == [i \in E |-> Cardinality({j \in E : d[j] < d[i]})]
           N == Cardinality(E)
<1>0. \A i \in E : B[i] = {j \in E : d[j] < d[i]} /\ r[i] = Cardinality(B[i])
  OBVIOUS
<1>1. N \in Nat
  BY FS_CardinalityType
<1>a. r \in [E -> {r[i] : i \in E}]
  OBVIOUS
<1> HIDE DEF B, r, N
<1>2. ASSUME NEW i \in E PROVE B[i] \in SUBSET E /\ i \notin B[i] /\ IsFiniteSet(B[i]) /\ r[i] \in Nat
  <2>1. B[i] \in SUBSET E /\ i \notin B[i]
    BY <1>0
  <2>2. IsFiniteSet(B[i])
    BY <2>1, FS_Subset
  <2> QED  BY <1>0, <2>1, <2>2, FS_CardinalityType
<1>3. ASSUME NEW i \in E PROVE r[i] < N
  <2>1. Cardinality(B[i]) <= N /\ (N = Cardinality(B[i]) => E = B[i])
    BY <1>2, FS_Subset DEF N
  <2>2. B[i] # E /\ r[i] = Cardinality(B[i]) /\ r[i] \in Nat
    BY <1>0, <1>2
  <2> QED  BY <1>1, <2>1, <2>2
<1>4. ASSUME NEW i \in E, NEW j \in E, d[i] < d[j] PROVE r[i] < r[j]
  <2>1. B[i] \cup {i} \in SUBSET B[j] /\ i \notin B[i] /\ IsFiniteSet(B[i]) /\ IsFiniteSet(B[j])
    <3>1. \A k \in B[i] : k \in E /\ d[k] < d[i]
      BY <1>0
    <3>2. \A k \in E : d[k] \in Int
      OBVIOUS
    <3>3. \A k \in B[i] : d[k] < d[j]
      BY <1>4, <3>1, <3>2
    <3> QED  BY <1>0, <1>2, <1>4, <3>1, <3>3
  <2>2. Cardinality(B[i] \cup {i}) = Cardinality(B[i]) + 1
    BY <2>1, FS_AddElement
  <2>3. Cardinality(B[i] \cup {i}) <= Cardinality(B[j])
    BY <2>1, FS_Subset
  <2>4. r[i] \in Nat /\ r[j] \in Nat /\ r[i] = Cardinality(B[i]) /\ r[j] = Cardinality(B[j])
    BY <1>0, <1>2
  <2> QED  BY <2>2, <2>3, <2>4
<1>5. r \in [E -> 0..N - 1]
  <2>1. \A i \in E : r[i] \in 0..N - 1
    BY <1>1, <1>2, <1>3
  <2> QED  BY <1>a, <2>1
<1>6. \A i, j \in E : r[i] = r[j] => i = j
  <2> SUFFICES ASSUME NEW i \in E, NEW j \in E, i # j PROVE r[i] # r[j]
    OBVIOUS
  <2>1. d[i] < d[j] \/ d[j] < d[i]
    OBVIOUS
  <2>2. r[i] \in Nat /\ r[j] \in Nat
    BY <1>2
  <2> QED  BY <1>4, <2>1, <2>2
<1>7. r \in Injection(E, 0..N - 1)
  BY <1>5, <1>6 DEF Injection, IsInjective
<1>8. IsFiniteSet(0..N - 1) /\ Cardinality(0..N - 1) = N
  <2>1. IsFiniteSet(0..N - 1) /\ Cardinality(0..N - 1) = IF 0 > N - 1 THEN 0 ELSE (N - 1) - 0 + 1
    BY <1>1, FS_Interval
  <2> QED  BY <1>1, <2>1
<1>9. r \in Surjection(E, 0..N - 1)
  BY <1>7, <1>8, FS_Injection DEF N
<1> QED  BY <1>7, <1>9 DEF Bijection, r, N

\* no two cells are at the same distance around the ring
LEMMA DistanceUnique ==
    ASSUME NEW from \in Int, NEW i \in Idx, NEW j \in Idx, Distance(i, from) = Distance(j, from)
    PROVE  i = j
<1>1. Size \in Nat /\ Size > 0 /\ i \in 0..Size - 1 /\ j \in 0..Size - 1
  BY SizeAssumption DEF Idx
<1>2. \A a \in Int : a = (Size * (a \div Size)) + (a % Size) /\ a \div Size \in Int
  BY <1>1
<1> DEFINE p == (i - from) \div Size
           q == (j - from) \div Size
<1>3. p \in Int /\ q \in Int /\ i - j = (Size * p) - (Size * q)
  <2>1. i - from \in Int /\ j - from \in Int
    BY <1>1
  <2>2. (i - from) % Size = (j - from) % Size
    BY DEF Distance
  <2>3. (i - from) % Size \in Int
    BY <1>1, <2>1
  <2>4. i - from = (Size * p) + ((i - from) % Size) /\ j - from = (Size * q) + ((i - from) % Size)
    BY <1>2, <2>1, <2>2
  <2>5. Size * p \in Int /\ Size * q \in Int /\ p \in Int /\ q \in Int
    BY <1>1, <1>2, <2>1
  <2> HIDE DEF p, q
  <2> QED  BY <1>1, <2>3, <2>4, <2>5
<1> HIDE DEF p, q
<1>4. \A a, b \in Int : a < b => Size * a + Size <= Size * b
  <2> SUFFICES ASSUME NEW a \in Int, NEW b \in Int, a < b PROVE Size * a + Size <= Size * b
    OBVIOUS
  <2>1. PICK c \in Nat : b = a + 1 + c
    <3>1. b - a - 1 \in Nat /\ b = a + 1 + (b - a - 1)
      OBVIOUS
    <3> QED  BY <3>1
  <2>2. Size * b = Size * a + Size + Size * c
    BY <1>1, <2>1
  <2>3. Size * c \in Nat /\ Size * a \in Int
    BY <1>1
  <2> QED  BY <1>1, <2>2, <2>3
<1>5. ~ (p < q) /\ ~ (q < p)
  <2>1. Size * p \in Int /\ Size * q \in Int
    BY <1>1, <1>3
  <2>2. p < q => Size * p + Size <= Size * q
    BY <1>3, <1>4
  <2>3. q < p => Size * q + Size <= Size * p
    BY <1>3, <1>4
  <2> QED  BY <1>1, <1>3, <2>1, <2>2, <2>3
<1>6. p = q
  BY <1>3, <1>5
<1>7. (Size * p) - (Size * q) = 0
  <2>1. Size * q \in Int
    BY <1>1, <1>3
  <2> QED  BY <1>6, <2>1
<1> QED  BY <1>1, <1>3, <1>7

\* find_slot gives a row that begins at the first position
LEMMA PlacedRow ==
    ASSUME StoreInv, NEW group \in Groups, NEW n \in Nat, NEW st \in Seqs, st \in Lanes(group),
           HasRoom(st, n)
    PROVE  /\ Row(Placement(group, n)[st], n)
           /\ FirstPos(group, st) \in Nat
           /\ \A i \in DOMAIN Placement(group, n)[st] :
                 /\ i \in Idx /\ cells[st][i].pos = -1
                 /\ Placement(group, n)[st][i].pos \in FirstPos(group, st)..FirstPos(group, st) + n - 1
<1> DEFINE E == EmptyCells(st)
           from == SearchFrom(st, n)
           d == [i \in E |-> Distance(i, from)]
           r == [i \in E |-> Cardinality({j \in E : d[j] < d[i]})]
           col == Placement(group, n)[st]
           f == FirstPos(group, st)
<1>1. E \in SUBSET Idx /\ IsFiniteSet(E) /\ Cardinality(E) \in Nat /\ Cardinality(E) >= n
  <2>1. E \in SUBSET Idx
    BY DEF EmptyCells
  <2>2. IsFiniteSet(E)
    BY <2>1, IdxFinite, FS_Subset
  <2> QED  BY <2>1, <2>2, FS_CardinalityType DEF HasRoom
<1>2. from \in Int
  BY DEF SearchFrom, StoreInv, HeadsOK, Heads
<1>3. d \in [E -> Int] /\ \A x, y \in E : d[x] = d[y] => x = y
  <2>1. \A i \in Idx : Distance(i, from) \in Int
    <3>1. \A a \in Int : a % Size \in Int
      BY SizeAssumption
    <3>2. \A i \in Idx : i - from \in Int
      BY <1>2 DEF Idx
    <3> QED  BY <3>1, <3>2 DEF Distance
  <2>2. \A x, y \in E : Distance(x, from) = Distance(y, from) => x = y
    BY <1>1, <1>2, DistanceUnique
  <2> HIDE DEF E, from
  <2> QED  BY <1>1, <2>1, <2>2
<1>4. \A i \in E : Order(st, n, i) = r[i]
  <2> TAKE i \in E
  <2>1. {j \in E : d[j] < d[i]} = {j \in EmptyCells(st) : Distance(j, from) < Distance(i, from)}
    OBVIOUS
  <2> QED  BY <2>1 DEF Order
<1>5. r \in Bijection(E, 0..Cardinality(E) - 1)
  <2> HIDE DEF E, d
  <2> QED  BY <1>1, <1>3, Ranking
<1>6. f \in Nat
  BY PosMaxType DEF FirstPos
<1>7. /\ DOMAIN col = {i \in E : Order(st, n, i) < n}
      /\ \A i \in DOMAIN col : col[i].pos = f + Order(st, n, i)
  BY DEF Placement, Slot
<1>8. \A i \in E : cells[st][i].pos = -1
  BY DEF EmptyCells
<1> HIDE DEF E, r, col, f
<1>9. /\ \A i \in E : r[i] \in 0..Cardinality(E) - 1
      /\ \A i, j \in E : r[i] = r[j] => i = j
      /\ \A p \in 0..Cardinality(E) - 1 : \E i \in E : r[i] = p
  BY <1>5 DEF Bijection, Injection, Surjection, IsInjective
<1>10. \A i \in DOMAIN col : i \in E /\ col[i].pos = f + r[i] /\ r[i] \in 0..n - 1
  BY <1>1, <1>4, <1>7, <1>9
<1>11. \A x, y \in DOMAIN col : col[x].pos = col[y].pos => x = y
  BY <1>1, <1>6, <1>9, <1>10
<1>12. \A x \in DOMAIN col : col[x].pos \in f..f + n - 1
  BY <1>6, <1>10
<1>13. ASSUME NEW p \in f..f + n - 1 PROVE \E x \in DOMAIN col : col[x].pos = p
  <2>1. p - f \in 0..Cardinality(E) - 1 /\ p - f < n
    BY <1>1, <1>6
  <2>2. PICK x \in E : r[x] = p - f
    BY <1>9, <2>1
  <2>3. x \in DOMAIN col
    BY <1>4, <1>7, <2>1, <2>2
  <2> QED  BY <1>6, <1>10, <2>2, <2>3
<1>14. Row(col, n)
  BY <1>6, <1>11, <1>12, <1>13 DEF Row
<1> QED  BY <1>1, <1>6, <1>8, <1>10, <1>12, <1>14 DEF col, f

-----------------------------------------------------------------------------
(***************************************************************************)
(* The phases of llama_decode up to the run: the content does not change.   *)
(***************************************************************************)
LEMMA ContentKept ==
    ASSUME Visible' = Visible
    PROVE  Content' = Content
  BY DEF Content

LEMMA EntryFacts ==
    ASSUME StoreInv, NEW k \in 1..Len(batch.stack)
    PROVE  /\ Contents(Entry(k).new) /\ Contents(Entry(k).old) /\ Entry(k).group \in Groups
           /\ \A st \in Seqs : \A i \in DOMAIN Entry(k).new[st] :
                 i \in Idx /\ Entry(k).new[st][i] \in GoodCell
<1>1. EntryOK(Entry(k), hasShift)
  BY DEF StoreInv, TrialInv, Inv, BatchOK, Entry
<1> QED  BY <1>1 DEF EntryOK, Contents

\* during a trial a cell is as before it or holds a token of an entry
LEMMA TrialCell ==
    ASSUME StoreInv, batch.phase = "prepare", NEW st \in Seqs, NEW i \in Idx
    PROVE  \/ /\ \A k \in 1..Len(batch.stack) : i \notin DOMAIN Entry(k).new[st]
              /\ cells[st][i] = Visible[st][i]
           \/ \E k \in 1..Len(batch.stack) :
                 i \in DOMAIN Entry(k).new[st] /\ cells[st][i] = Entry(k).new[st][i]
<1>1. OnTrial = Len(batch.stack) /\ Visible = batch.origin
  BY DEF OnTrial, Visible
<1> QED  BY <1>1 DEF StoreInv, TrialInv, TrialOK

LEMMA TrialBounded ==
    ASSUME StoreInv, batch.phase = "prepare"
    PROVE  \A st \in Seqs, i \in Idx : cells[st][i].pos <= MaxPos /\ cells[st][i] \in GoodCell
<1>1. \A st \in Seqs, i \in Idx : cells[st][i] \in GoodCell
  BY DEF StoreInv, TrialInv, Inv, BooksOK, CellsOK
<1>2. \A st \in Seqs, i \in Idx : cells[st][i].pos <= MaxPos
  BY TrialCell DEF StoreInv, PosOK, Bounded
<1> QED  BY <1>1, <1>2

\* what was visible before the trial are proper cells
LEMMA VisibleGood ==
    ASSUME StoreInv, batch.phase = "prepare", NEW st \in Seqs, NEW i \in Idx
    PROVE  Visible[st][i] \in GoodCell
<1>1. Visible = batch.origin
  BY DEF Visible
<1>2. ASSUME NEW k \in 1..Len(batch.stack), i \in DOMAIN Entry(k).new[st] PROVE batch.origin[st][i] \in GoodCell
  <2>1. Entry(k).old[st][i] = batch.origin[st][i] /\ i \in DOMAIN Entry(k).old[st]
    BY <1>2 DEF StoreInv, TrialInv, TrialOK, FillsOK
  <2> QED  BY <2>1, EntryFacts DEF Contents
<1> QED  BY <1>1, <1>2, TrialCell, TrialBounded

\* seq_pos_max bounds the positions of a sequence
LEMMA BelowPosMax ==
    ASSUME StoreInv, NEW st \in Seqs, NEW s \in Seqs, NEW i \in Idx, s \in cells[st][i].seq,
           cells[st][i] \in GoodCell, cells[st][i].pos <= MaxPos
    PROVE  cells[st][i].pos <= PosMax(st, s)
<1> MaxPos \in Nat  BY BoundAssumption
<1> DEFINE p == cells[st][i].pos
           O == Occurs(st, s, p)
           S == {-1} \cup {x \in Positions : count[st][s][x] > 0}
<1>1. p \in Nat /\ p \in Positions
  BY DEF GoodCell, Positions
<1>2. O # {} /\ IsFiniteSet(O)
  <2>1. i \in O
    BY DEF Occurs, Holds
  <2>2. O \in SUBSET Idx
    BY DEF Occurs
  <2> QED  BY <2>1, <2>2, IdxFinite, FS_Subset
<1>3. count[st][s][p] = Cardinality(O)
  BY <1>1 DEF StoreInv, TrialInv, Inv, BooksOK, CountOK
<1>4. Cardinality(O) \in Nat /\ Cardinality(O) # 0
  BY <1>2, FS_CardinalityType, FS_EmptySet
<1>5. p \in S /\ S \subseteq -1..MaxPos /\ -1 \in S
  BY <1>1, <1>3, <1>4 DEF Positions
<1> HIDE DEF p, O, S
<1>6. Max(S) >= p
  BY <1>5, MaxExists
<1>7. Max(S) \in Int /\ p \in Int
  <2>1. \A x \in -1..MaxPos : x \in Int
    OBVIOUS
  <2> QED  BY <1>1, <1>5, <2>1, MaxExists
<1> QED  BY <1>6, <1>7 DEF PosMax, S, p

LEMMA LaneFacts ==
    ASSUME NEW group \in Groups, NEW st \in Lanes(group)
    PROVE  /\ st \in Seqs /\ group \subseteq Seqs
           /\ LaneSeqs(group, st) # {}
           /\ \A s \in LaneSeqs(group, st) : s \in group /\ s \in Seqs /\ StreamOf(s) = st
<1>1. group \subseteq Seqs
  BY GroupAssumption
<1> QED  BY <1>1, StreamType DEF Lanes, LaneSeqs

\* a placement begins behind every cell of its sequences and ends within the bound
LEMMA PlacedBehind ==
    ASSUME StoreInv, batch.phase = "prepare", NEW group \in Groups, NEW n \in Nat \ {0},
           Acceptable(group, n), NEW st \in Lanes(group)
    PROVE  /\ \A i \in Idx, p \in Nat :
                 p >= FirstPos(group, st) => Before(cells[st][i], LaneSeqs(group, st), p)
           /\ FirstPos(group, st) + n - 1 <= MaxPos
           /\ n \in 1..MaxPos + 1
<1>1. PICK s \in LaneSeqs(group, st) : TRUE
  BY LaneFacts
<1>2. \A x \in LaneSeqs(group, st) : /\ PosMax(st, x) + 1 = FirstPos(group, st)
                                     /\ PosMax(st, x) + n <= MaxPos
                                     /\ PosMax(st, x) \in Int /\ PosMax(st, x) >= -1
  BY LaneFacts, PosMaxType DEF Acceptable
<1>3. FirstPos(group, st) + n - 1 <= MaxPos /\ n \in 1..MaxPos + 1
  <2>1. PosMax(st, s) + 1 = FirstPos(group, st) /\ PosMax(st, s) + n <= MaxPos
        /\ PosMax(st, s) \in Int /\ PosMax(st, s) >= -1
    BY <1>1, <1>2
  <2> QED  BY <2>1, BoundAssumption
<1>4. ASSUME NEW i \in Idx, NEW p \in Nat, p >= FirstPos(group, st),
             NEW x \in LaneSeqs(group, st), x \in cells[st][i].seq
      PROVE  cells[st][i].pos < p
  <2>1. cells[st][i].pos <= PosMax(st, x) /\ cells[st][i].pos \in Int
    BY <1>4, LaneFacts, TrialBounded, BelowPosMax DEF GoodCell
  <2>2. PosMax(st, x) + 1 = FirstPos(group, st) /\ PosMax(st, x) \in Int
    BY <1>2
  <2> QED  BY <1>4, <2>1, <2>2
<1> QED  BY <1>3, <1>4 DEF Before

\* the positions of a lane number belong to a stream
LEMMA LaneNumberType ==
    ASSUME NEW group \in Groups, NEW st \in Lanes(group)
    PROVE  LaneNumber(group, st) \in Seqs
<1> DEFINE N == Cardinality(Seqs)
           low == {x \in Lanes(group) : x < st}
<1>1. N \in Nat /\ Seqs = 0..N - 1
  BY SeqsAssumption, FS_CardinalityType
<1>2. st \in Seqs /\ \A x \in Lanes(group) : x \in Seqs
  BY LaneFacts
<1> HIDE DEF N
<1>3. low \in SUBSET (0..st - 1)
  <2>1. st \in Nat /\ \A x \in low : x \in Nat /\ x < st
    BY <1>1, <1>2
  <2> HIDE DEF low
  <2> QED  BY <2>1
<1>4. IsFiniteSet(0..st - 1) /\ Cardinality(0..st - 1) = st
  <2>1. st \in Nat
    BY <1>1, <1>2
  <2>2. IsFiniteSet(0..st - 1) /\ Cardinality(0..st - 1) = IF 0 > st - 1 THEN 0 ELSE (st - 1) - 0 + 1
    BY <2>1, FS_Interval
  <2> QED  BY <2>1, <2>2
<1>5. Cardinality(low) \in Nat /\ Cardinality(low) <= st
  BY <1>3, <1>4, FS_Subset, FS_CardinalityType
<1> QED  BY <1>1, <1>2, <1>5 DEF LaneNumber

LEMMA PlaceUbatchStore ==
    ASSUME StoreInv, TrialInv', NEW group \in Groups, NEW n \in Nat \ {0}, PlaceUbatch(group, n)
    PROVE  StoreInv' /\ Content' = Content
<1> DEFINE new == Placement(group, n)
           old == [st \in Seqs |-> [i \in DOMAIN new[st] |-> cells[st][i]]]
           e   == [group |-> group, new |-> new, heads |-> head, old |-> old]
           q   == batch.stack
           m   == Len(q)
           r   == batch'.stack
<1>1. Contents(new) /\ \A st \in Seqs : DOMAIN new[st] # {} => st \in Lanes(group)
  <2>1. Contents(new)
    BY PlacementGood DEF StoreInv, TrialInv
  <2> QED  BY <2>1 DEF Placement
<1>2. \A st \in Seqs : DOMAIN new[st] # {} =>
         /\ Row(new[st], n) /\ FirstPos(group, st) \in Nat
         /\ \A i \in DOMAIN new[st] :
               /\ i \in Idx /\ cells[st][i].pos = -1
               /\ new[st][i].pos \in FirstPos(group, st)..FirstPos(group, st) + n - 1
  <2>1. \A st \in Lanes(group) : HasRoom(st, n)
    BY DEF PlaceUbatch
  <2> QED  BY <1>1, <2>1, PlacedRow
<1>3. \A st \in Seqs : \A i \in DOMAIN new[st] : new[st][i].seq = LaneSeqs(group, st)
  BY DEF Placement
<1>4. /\ batch' = [batch EXCEPT !.stack = Append(@, e)] /\ batch.phase = "prepare"
      /\ head' = HeadBehind(new) /\ Acceptable(group, n)
  BY DEF PlaceUbatch
<1> HIDE DEF new, old
<1>5. e.new = new /\ e.heads = head
  OBVIOUS
<1>6. batch'.phase = "prepare" /\ batch'.origin = batch.origin /\ r = Append(q, e)
  BY <1>4 DEF StoreInv, TrialInv, Inv, BatchOK
<1> HIDE DEF e, q, m, r
<1>7. m \in Nat /\ Len(r) = m + 1 /\ r[m + 1] = e /\ \A k \in 1..m : r[k] = q[k]
  BY <1>6, AppendIsSeq DEF StoreInv, TrialInv, Inv, BatchOK, IsSeq, q, m
<1>8. Visible = batch.origin /\ Visible' = Visible
  BY <1>4, <1>6 DEF Visible
<1>9. ASSUME NEW st \in Seqs, NEW i \in DOMAIN new[st]
      PROVE  /\ i \in Idx /\ new[st][i].pos <= MaxPos /\ n \in 1..MaxPos + 1
             /\ \A x \in Idx : Before(cells[st][x], new[st][i].seq, new[st][i].pos)
  <2>1. st \in Lanes(group)
    BY <1>1, <1>9
  <2>2. i \in Idx /\ new[st][i].pos \in Nat /\ new[st][i].pos >= FirstPos(group, st)
        /\ new[st][i].pos <= FirstPos(group, st) + n - 1 /\ FirstPos(group, st) \in Nat
    BY <1>2, <1>9
  <2>3. FirstPos(group, st) + n - 1 <= MaxPos /\ n \in 1..MaxPos + 1
    BY <1>4, <2>1, PlacedBehind
  <2>4. \A x \in Idx : Before(cells[st][x], LaneSeqs(group, st), new[st][i].pos)
    BY <1>4, <2>1, <2>2, PlacedBehind
  <2> QED  BY <1>3, <1>9, <2>2, <2>3, <2>4, BoundAssumption
<1>10. n \in 1..MaxPos + 1
  <2>1. PICK st \in Lanes(group) : TRUE
    BY GroupAssumption DEF Lanes
  <2> QED  BY <1>4, <2>1, PlacedBehind
<1>11. Rows(new, n)
  BY <1>2 DEF Rows
\* the heads
<1>12. HeadsOK'
  <2>1. head' \in Heads
    BY <1>1, <1>4, <1>11, HeadBehindType DEF StoreInv
  <2>2. \A k \in 1..m : q[k].heads \in Heads
    BY DEF StoreInv, HeadsOK, Entry, q, m
  <2>3. e.heads \in Heads
    BY <1>5 DEF StoreInv, HeadsOK
  <2>4. \A k \in 1..Len(r) : r[k].heads \in Heads
    BY <1>7, <2>2, <2>3
  <2> QED  BY <2>1, <2>4 DEF HeadsOK, Entry, r, Heads
\* the rows and the positions
<1>13. RowsOK'
  <2>1. \A k \in 1..m : \E x \in 1..MaxPos + 1 : Rows(q[k].new, x)
    BY DEF StoreInv, RowsOK, Entry, q, m
  <2>2. \A k \in 1..Len(r) : \E x \in 1..MaxPos + 1 : Rows(r[k].new, x)
    BY <1>5, <1>7, <1>10, <1>11, <2>1
  <2> QED  BY <2>2 DEF RowsOK, Entry, r
<1>14. PosOK'
  <2>1. \A k \in 1..m, st \in Seqs : \A i \in DOMAIN q[k].new[st] : q[k].new[st][i].pos <= MaxPos
    BY DEF StoreInv, PosOK, Entry, q, m
  <2>2. \A k \in 1..Len(r) : k \in 1..m \/ k = m + 1
    BY <1>7
  <2>3. \A k \in 1..Len(r), st \in Seqs : \A i \in DOMAIN r[k].new[st] : r[k].new[st][i].pos <= MaxPos
    BY <1>5, <1>7, <1>9, <2>1, <2>2
  <2>4. Bounded(Visible')
    BY <1>8 DEF StoreInv, PosOK
  <2> QED  BY <2>3, <2>4 DEF PosOK, Entry, r, Bounded
\* the new entry is fresh, and the earlier ones stay so
<1>15. FreshOK'
  <2>1. Pending = 1 /\ Pending' = 1 /\ Active
    BY <1>4, <1>6 DEF Pending, Active
  <2>2. ASSUME NEW k \in 1..m, NEW st \in Seqs, NEW i \in DOMAIN q[k].new[st]
        PROVE  /\ Visible[st][i].pos = -1
               /\ \A x \in Idx : Before(Visible[st][x], q[k].new[st][i].seq, q[k].new[st][i].pos)
               /\ \A j \in 1..k - 1 :
                     /\ i \notin DOMAIN q[j].new[st]
                     /\ \A x \in DOMAIN q[j].new[st] :
                           Before(q[j].new[st][x], q[k].new[st][i].seq, q[k].new[st][i].pos)
    BY <2>1, <2>2 DEF StoreInv, FreshOK, Entry, q, m
  <2>3. ASSUME NEW st \in Seqs, NEW i \in DOMAIN new[st]
        PROVE  /\ Visible[st][i].pos = -1
               /\ \A x \in Idx : Before(Visible[st][x], new[st][i].seq, new[st][i].pos)
               /\ \A j \in 1..m :
                     /\ i \notin DOMAIN q[j].new[st]
                     /\ \A x \in DOMAIN q[j].new[st] : Before(q[j].new[st][x], new[st][i].seq, new[st][i].pos)
    <3>1. i \in Idx /\ cells[st][i].pos = -1
      BY <1>2, <2>3
    <3>2. \A j \in 1..m, x \in Idx : x \in DOMAIN q[j].new[st] =>
              cells[st][x] = q[j].new[st][x] /\ q[j].new[st][x].pos # -1
      <4>1. OnTrial = m
        BY <1>4 DEF OnTrial, q, m
      <4> QED  BY <1>4, <4>1 DEF StoreInv, TrialInv, TrialOK, FillsOK, Entry, q, m
    <3>3. \A j \in 1..m : \A x \in DOMAIN q[j].new[st] : x \in Idx
      BY EntryFacts DEF Entry, q, m
    <3>4. \A j \in 1..m : i \notin DOMAIN q[j].new[st]
      BY <3>1, <3>2
    <3>5. Visible[st][i].pos = -1
      BY <1>4, <3>1, <3>4, TrialCell DEF Entry, q, m
    <3>6. ASSUME NEW j \in 1..m, NEW x \in DOMAIN q[j].new[st]
          PROVE  Before(q[j].new[st][x], new[st][i].seq, new[st][i].pos)
      BY <1>9, <2>3, <3>2, <3>3, <3>6
    <3>7. ASSUME NEW x \in Idx PROVE Before(Visible[st][x], new[st][i].seq, new[st][i].pos)
      <4>1. CASE \E j \in 1..m : x \in DOMAIN q[j].new[st]
        <5>1. PICK j \in 1..m : x \in DOMAIN q[j].new[st]
          BY <4>1
        <5>2. Visible[st][x].pos = -1
          BY <2>2, <5>1
        <5>3. Visible[st][x] \in GoodCell
          BY <1>4, VisibleGood
        <5> QED  BY <5>2, <5>3 DEF Before, GoodCell
      <4>2. CASE ~ \E j \in 1..m : x \in DOMAIN q[j].new[st]
        <5>1. cells[st][x] = Visible[st][x]
          BY <1>4, <4>2, TrialCell DEF Entry, q, m
        <5> QED  BY <1>9, <2>3, <5>1
      <4> QED  BY <4>1, <4>2
    <3> QED  BY <3>4, <3>5, <3>6, <3>7
  <2>4. ASSUME NEW k \in 1..Len(r), NEW st \in Seqs, NEW i \in DOMAIN r[k].new[st]
        PROVE  /\ Visible[st][i].pos = -1
               /\ \A x \in Idx : Before(Visible[st][x], r[k].new[st][i].seq, r[k].new[st][i].pos)
               /\ \A j \in 1..k - 1 :
                     /\ i \notin DOMAIN r[j].new[st]
                     /\ \A x \in DOMAIN r[j].new[st] :
                           Before(r[j].new[st][x], r[k].new[st][i].seq, r[k].new[st][i].pos)
    <3>1. CASE k \in 1..m
      <4>1. r[k] = q[k] /\ \A j \in 1..k - 1 : r[j] = q[j]
        BY <1>7, <3>1
      <4> QED  BY <2>2, <2>4, <3>1, <4>1
    <3>2. CASE k = m + 1
      <4>1. r[k] = e /\ \A j \in 1..k - 1 : j \in 1..m /\ r[j] = q[j]
        BY <1>7, <3>2
      <4> QED  BY <1>5, <2>3, <2>4, <4>1
    <3> QED  BY <1>7, <3>1, <3>2
  <2> QED  BY <1>8, <2>1, <2>4 DEF FreshOK, Entry, r
<1> QED  BY <1>8, <1>12, <1>13, <1>14, <1>15, ContentKept DEF StoreInv

\* the steps of a trial that place nothing
LEMMA TurnStore ==
    ASSUME StoreInv, TrialInv', NEW group, NEW n,
           PlaceFails(group, n) \/ PlaceEnd \/ RestoreOne
    PROVE  StoreInv' /\ Content' = Content
<1>1. /\ batch.phase \in {"prepare", "restore"} /\ batch'.phase = "restore"
      /\ batch'.stack = batch.stack /\ batch'.origin = batch.origin
  BY DEF PlaceFails, PlaceEnd, RestoreOne, StoreInv, TrialInv, Inv, BatchOK
<1>2. Visible' = Visible /\ Active /\ Pending = 1 /\ Pending' = 1
  BY <1>1 DEF Visible, Active, Pending
<1>3. head' \in Heads
  <2>1. CASE PlaceFails(group, n) \/ PlaceEnd
    BY <2>1 DEF PlaceFails, PlaceEnd, books, StoreInv, HeadsOK
  <2>2. CASE RestoreOne
    <3> DEFINE e == Entry(batch.at)
    <3>1. batch.at \in 1..Len(batch.stack)
      BY <2>2 DEF RestoreOne, StoreInv, TrialInv, Inv, BatchOK, IsSeq
    <3>2. e.group \in Groups /\ e.heads \in Heads
      BY <3>1, EntryFacts DEF StoreInv, HeadsOK
    <3>3. head' = [st \in Seqs |-> IF st \in Lanes(e.group) THEN e.heads[LaneNumber(e.group, st)]
                                                            ELSE head[st]]
      BY <2>2 DEF RestoreOne, Entry
    <3> HIDE DEF e
    <3> QED  BY <3>2, <3>3, LaneNumberType DEF StoreInv, HeadsOK, Heads
  <2> QED  BY <2>1, <2>2
<1>4. HeadsOK'
  BY <1>1, <1>3 DEF StoreInv, HeadsOK, Entry, Heads
<1>5. PosOK' /\ RowsOK'
  BY <1>1, <1>2 DEF StoreInv, PosOK, RowsOK, Entry, Bounded
<1>6. FreshOK'
  BY <1>1, <1>2 DEF StoreInv, FreshOK, Entry
<1> QED  BY <1>2, <1>4, <1>5, <1>6, ContentKept DEF StoreInv

\* all is taken back: the run starts from the cells before the trial
LEMMA RestoreEndStore ==
    ASSUME StoreInv, TrialInv', RestoreEnd
    PROVE  StoreInv' /\ Content' = Content
<1>1. /\ batch.phase = "restore" /\ UNCHANGED <<head, cells>>
  BY DEF RestoreEnd, books, meta
<1>2. \/ batch'.phase = "run" /\ batch'.stack = batch.stack /\ batch'.at = 1
      \/ batch'.phase = "none" /\ Len(batch'.stack) = 0
  BY DEF RestoreEnd, StoreInv, TrialInv, Inv, BatchOK, NoBatch
<1>3. Visible = batch.origin /\ Visible' = cells
  BY <1>1, <1>2 DEF Visible
<1>4. \A st \in Seqs, i \in Idx : Visible'[st][i] = Visible[st][i]
  BY <1>3, AllTakenBack DEF StoreInv
<1>5. Content' = Content
  <2>1. \A st \in Seqs : Toks(Visible'[st]) = Toks(Visible[st])
    BY <1>4 DEF Toks
  <2>2. Content' = [st \in Seqs |-> Toks(Visible'[st])]
    BY DEF Content, Toks, Tok
  <2> QED  BY <2>1, <2>2, ContentIs
<1>6. HeadsOK' /\ PosOK' /\ RowsOK'
  <2>1. head' \in Heads /\ Bounded(Visible')
    BY <1>1, <1>4 DEF StoreInv, HeadsOK, PosOK, Bounded, Heads
  <2>2. CASE batch'.stack = batch.stack
    BY <2>1, <2>2 DEF StoreInv, HeadsOK, PosOK, RowsOK, Entry, Heads, Bounded
  <2>3. CASE Len(batch'.stack) = 0
    BY <2>1, <2>3 DEF HeadsOK, PosOK, RowsOK, Heads, Bounded
  <2> QED  BY <1>2, <2>2, <2>3
<1>7. FreshOK'
  <2>1. CASE batch'.phase = "none"
    BY <2>1 DEF FreshOK, Active
  <2>2. CASE batch'.phase = "run" /\ batch'.stack = batch.stack /\ batch'.at = 1
    <3>1. Active /\ Pending = 1 /\ Pending' = 1
      BY <1>1, <2>2 DEF Active, Pending
    <3>2. \A k \in 1..Len(batch.stack), st \in Seqs : \A i \in DOMAIN Entry(k).new[st] : i \in Idx
      BY EntryFacts
    <3> QED  BY <1>4, <2>2, <3>1, <3>2 DEF StoreInv, FreshOK, Entry
  <2> QED  BY <1>2, <2>1, <2>2
<1> QED  BY <1>5, <1>6, <1>7 DEF StoreInv

\* what earlier calls left to do to the buffers
LEMMA UpdateStore ==
    ASSUME StoreInv, TrialInv', DecodeStart \/ CopyStream \/ ApplyShift \/ UpdateEnd
    PROVE  StoreInv' /\ Content' = Content
<1>1. /\ batch.phase \in {"none", "update"} /\ Len(batch.stack) = 0 /\ head' = head
  BY DEF DecodeStart, CopyStream, ApplyShift, UpdateEnd, Quiet, books, meta, StoreInv, TrialInv, Inv, BatchOK
<1>2. Len(batch'.stack) = 0 /\ batch'.phase \in {"update", "prepare"} /\ Visible' = cells'
  <2>1. CASE DecodeStart
    BY <2>1 DEF DecodeStart, NoBatch, Visible
  <2>2. CASE CopyStream \/ ApplyShift
    BY <1>1, <2>2 DEF CopyStream, ApplyShift, Visible
  <2>3. CASE UpdateEnd
    <3>1. batch'.phase = "prepare" /\ batch'.stack = batch.stack /\ batch'.origin = cells /\ cells' = cells
      BY <2>3 DEF UpdateEnd, books, meta, StoreInv, TrialInv, Inv, BatchOK
    <3> QED  BY <1>1, <3>1 DEF Visible
  <2> QED  BY <2>1, <2>2, <2>3
<1>3. \A st \in Seqs, i \in Idx : /\ cells'[st][i].pos = cells[st][i].pos /\ cells'[st][i].seq = cells[st][i].seq
                                  /\ cells'[st][i].id = cells[st][i].id
  <2>1. CASE ApplyShift
    <3>1. \A c \in GoodCell : /\ [c EXCEPT !.shift = 0].pos = c.pos /\ [c EXCEPT !.shift = 0].seq = c.seq
                              /\ [c EXCEPT !.shift = 0].id = c.id
      BY DEF GoodCell
    <3>2. \A st \in Seqs, i \in Idx : /\ cells[st][i] \in GoodCell
                                      /\ cells'[st][i] = [cells[st][i] EXCEPT !.shift = 0]
      BY <2>1 DEF ApplyShift, StoreInv, TrialInv, Inv, BooksOK, CellsOK
    <3> QED  BY <3>1, <3>2
  <2>2. CASE DecodeStart \/ CopyStream \/ UpdateEnd
    BY <2>2 DEF DecodeStart, CopyStream, UpdateEnd, books, meta
  <2> QED  BY <2>1, <2>2
<1>4. Visible = cells
  BY <1>1 DEF Visible
<1>5. Content' = Content
  <2>1. \A st \in Seqs : Toks(cells'[st]) = Toks(cells[st])
    BY <1>3 DEF Toks, Tok
  <2>2. Content' = [st \in Seqs |-> Toks(Visible'[st])]
    BY DEF Content, Toks, Tok
  <2> QED  BY <1>2, <1>4, <2>1, <2>2, ContentIs
<1>6. HeadsOK'
  BY <1>1, <1>2 DEF StoreInv, HeadsOK, Heads
<1>7. PosOK'
  BY <1>2, <1>3, <1>4 DEF StoreInv, PosOK, Bounded
<1> QED  BY <1>2, <1>5, <1>6, <1>7 DEF StoreInv, RowsOK, FreshOK, Active, Pending

-----------------------------------------------------------------------------
(***************************************************************************)
(* The micro-batches are computed.                                          *)
(***************************************************************************)
\* what Append of the store says of one stream, C before and D after
LaneAppended(C, D, n) ==
    LET new == D \ C IN
    /\ C \subseteq D
    /\ new # {} =>
          /\ Cardinality(new) = n
          /\ \A t \in new : /\ t.seqs # {}
                            /\ \A s \in t.seqs : \A u \in C : s \in u.seqs => u.pos < t.pos
                            /\ \A u \in new : u.seqs = t.seqs /\ (u # t => u.pos # t.pos)
                                              /\ u.pos - t.pos < n

LEMMA NothingAppended == ASSUME NEW C, NEW n PROVE LaneAppended(C, C, n)
  BY DEF LaneAppended

\* a row of tokens of the sequences q comes to lie in free cells, behind those of q
LEMMA RowAppended ==
    ASSUME NEW A, NEW B, NEW col, NEW n \in Nat, NEW q, q # {},
           Row(col, n), DOMAIN col \subseteq Idx,
           \A i \in DOMAIN col : /\ A[i].pos = -1
                                 /\ B[i].pos = col[i].pos /\ B[i].seq = q /\ col[i].pos # -1
                                 /\ \A x \in Idx : A[x].pos # -1 => Before(A[x], q, col[i].pos),
           \A i \in Idx : i \notin DOMAIN col => B[i] = A[i]
    PROVE  LaneAppended(Toks(A), Toks(B), n)
<1> DEFINE D == DOMAIN col
           N == {Tok(B[i]) : i \in D}
<1>1. PICK from \in Nat : /\ \A x, y \in D : col[x].pos = col[y].pos => x = y
                          /\ \A x \in D : col[x].pos \in from..from + n - 1
                          /\ \A p \in from..from + n - 1 : \E x \in D : col[x].pos = p
  BY DEF Row
<1>2. \A i \in D : Tok(B[i]).pos = col[i].pos /\ Tok(B[i]).seqs = q
  BY DEF Tok
<1>3. Toks(B) = Toks(A) \cup N
  <2>1. ASSUME NEW i \in Idx, B[i].pos # -1 PROVE Tok(B[i]) \in Toks(A) \cup N
    <3>1. CASE i \in D
      BY <3>1
    <3>2. CASE i \notin D
      BY <2>1, <3>2 DEF Toks
    <3> QED  BY <3>1, <3>2
  <2>2. ASSUME NEW i \in Idx, A[i].pos # -1 PROVE Tok(A[i]) \in Toks(B)
    BY <2>2 DEF Toks
  <2>3. ASSUME NEW i \in D PROVE Tok(B[i]) \in Toks(B)
    BY <2>3 DEF Toks
  <2>4. Toks(B) \subseteq Toks(A) \cup N
    BY <2>1 DEF Toks
  <2>5. Toks(A) \subseteq Toks(B)
    BY <2>2 DEF Toks
  <2>6. N \subseteq Toks(B)
    BY <2>3
  <2> QED  BY <2>4, <2>5, <2>6
<1>4. \A i \in D, t \in Toks(A) : q \cap t.seqs # {} => t.pos < col[i].pos
  <2> SUFFICES ASSUME NEW i \in D, NEW t \in Toks(A), q \cap t.seqs # {} PROVE t.pos < col[i].pos
    OBVIOUS
  <2>1. PICK x \in Idx : A[x].pos # -1 /\ t = Tok(A[x])
    BY DEF Toks
  <2>2. t.pos = A[x].pos /\ t.seqs = A[x].seq
    BY <2>1 DEF Tok
  <2> QED  BY <2>1, <2>2 DEF Before
<1>5. Toks(B) \ Toks(A) = N
  <2>1. ASSUME NEW i \in D, Tok(B[i]) \in Toks(A) PROVE FALSE
    <3>1. Tok(B[i]).pos < col[i].pos
      BY <1>2, <1>4, <2>1
    <3>2. col[i].pos \in Int
      BY <1>1
    <3> QED  BY <1>2, <3>1, <3>2
  <2> QED  BY <1>3, <2>1
<1>6. Cardinality(N) = n
  <2> DEFINE P == from..from + n - 1
             f == [t \in N |-> t.pos]
  <2>1. IsFiniteSet(P) /\ Cardinality(P) = n
    <3>1. IsFiniteSet(P) /\ Cardinality(P) = IF from > from + n - 1 THEN 0 ELSE (from + n - 1) - from + 1
      BY FS_Interval
    <3> QED  BY <3>1
  <2>2. f \in [N -> P]
    BY <1>1, <1>2
  <2>3. \A t, u \in N : f[t] = f[u] => t = u
    BY <1>1, <1>2
  <2>4. \A p \in P : \E t \in N : f[t] = p
    <3> SUFFICES ASSUME NEW p \in P PROVE \E t \in N : f[t] = p
      OBVIOUS
    <3>1. PICK x \in D : col[x].pos = p
      BY <1>1
    <3>2. Tok(B[x]) \in N /\ f[Tok(B[x])] = p
      BY <1>2, <3>1
    <3> QED  BY <3>2
  <2> HIDE DEF N, P, f
  <2>5. f \in Injection(N, P) /\ f \in Surjection(N, P)
    BY <2>2, <2>3, <2>4 DEF Injection, Surjection, IsInjective
  <2> QED  BY <2>1, <2>5, FS_Injection
<1>7. ASSUME NEW t \in N
      PROVE  /\ t.seqs # {}
             /\ \A s \in t.seqs : \A u \in Toks(A) : s \in u.seqs => u.pos < t.pos
             /\ \A u \in N : u.seqs = t.seqs /\ (u # t => u.pos # t.pos) /\ u.pos - t.pos < n
  <2>1. PICK i \in D : t = Tok(B[i])
    BY <1>7
  <2>2. t.seqs = q /\ t.pos = col[i].pos
    BY <1>2, <2>1
  <2>3. \A s \in t.seqs : \A u \in Toks(A) : s \in u.seqs => u.pos < t.pos
    BY <1>4, <2>2
  <2>4. ASSUME NEW u \in N PROVE u.seqs = t.seqs /\ (u # t => u.pos # t.pos) /\ u.pos - t.pos < n
    <3>1. PICK j \in D : u = Tok(B[j])
      BY <2>4
    <3>2. u.seqs = q /\ u.pos = col[j].pos
      BY <1>2, <3>1
    <3>3. u # t => col[i].pos # col[j].pos
      BY <1>1, <2>1, <3>1
    <3>4. col[i].pos \in from..from + n - 1 /\ col[j].pos \in from..from + n - 1
      BY <1>1
    <3>5. col[j].pos - col[i].pos < n
      BY <3>4
    <3> QED  BY <2>2, <3>2, <3>3, <3>5
  <2> QED  BY <2>2, <2>3, <2>4
<1> HIDE DEF N
<1>8. Toks(A) \subseteq Toks(B)
  BY <1>3
<1> QED  BY <1>5, <1>6, <1>7, <1>8 DEF LaneAppended

\* the entry whose turn it is: its cells are free, its row lies behind its sequences
LEMMA RunEntry ==
    ASSUME StoreInv, batch.phase = "run"
    PROVE  /\ batch.at \in 1..Len(batch.stack) /\ Visible = cells
           /\ \A st \in Seqs : \A i \in DOMAIN Entry(batch.at).new[st] :
                 LET c == Entry(batch.at).new[st][i] IN
                 /\ i \in Idx /\ c \in GoodCell /\ c.pos # -1 /\ c.pos <= MaxPos
                 /\ c.seq = LaneSeqs(Entry(batch.at).group, st)
                 /\ cells[st][i].pos = -1
                 /\ \A x \in Idx : Before(cells[st][x], c.seq, c.pos)
           /\ \E n \in 1..MaxPos + 1 : Rows(Entry(batch.at).new, n)
<1>1. batch.at \in 1..Len(batch.stack) /\ Visible = cells /\ Active /\ Pending = batch.at
  BY DEF StoreInv, TrialInv, Inv, BatchOK, Visible, Active, Pending
<1>2. batch.at \in Pending..Len(batch.stack)
  BY <1>1
<1>3. \A st \in Seqs : LaneSet(unified, Entry(batch.at).group, st) = LaneSeqs(Entry(batch.at).group, st)
  BY DEF LaneSeqs, LaneSet, StreamOf
<1>4. ASSUME NEW st \in Seqs, NEW i \in DOMAIN Entry(batch.at).new[st]
      PROVE  LET c == Entry(batch.at).new[st][i] IN
             /\ i \in Idx /\ c \in GoodCell /\ c.pos # -1 /\ c.pos <= MaxPos
             /\ c.seq = LaneSeqs(Entry(batch.at).group, st)
             /\ cells[st][i].pos = -1
             /\ \A x \in Idx : Before(cells[st][x], c.seq, c.pos)
  <2> DEFINE c == Entry(batch.at).new[st][i]
  <2>1. i \in Idx /\ c \in GoodCell
    BY <1>1, <1>4, EntryFacts
  <2>2. c.pos # -1 /\ c.seq = LaneSeqs(Entry(batch.at).group, st)
    BY <1>1, <1>3, <1>4 DEF StoreInv, TrialInv, FillsOK
  <2>3. c.pos <= MaxPos
    BY <1>1, <1>4 DEF StoreInv, PosOK
  <2>4. Visible[st][i].pos = -1 /\ \A x \in Idx : Before(Visible[st][x], c.seq, c.pos)
    BY <1>1, <1>2, <1>4 DEF StoreInv, FreshOK
  <2> QED  BY <1>1, <2>1, <2>2, <2>3, <2>4
<1>5. \E n \in 1..MaxPos + 1 : Rows(Entry(batch.at).new, n)
  BY <1>1 DEF StoreInv, RowsOK
<1> QED  BY <1>1, <1>4, <1>5

\* the store counts with the Cardinality of the modules it extends
LEMMA StoreCardinality == ASSUME NEW S PROVE Store!Cardinality(S) = Cardinality(S)
  BY DEF Store!Cardinality, Cardinality

\* each stream receives the row, or nothing
LEMMA Appends ==
    ASSUME StoreInv, batch.phase = "run", Visible' = cells', NEW n \in 1..MaxPos + 1,
           \A st \in Seqs : LaneAppended(Toks(cells[st]), Toks(cells'[st]), n)
    PROVE  \E k \in 1..Cardinality(Positions) : Store!Append(k)
<1>1. Content = [st \in Seqs |-> Toks(cells[st])]
  BY RunEntry, ContentIs
<1>2. Content' = [st \in Seqs |-> Toks(cells'[st])]
  BY DEF Content, Toks, Tok
<1>3. ASSUME NEW st \in Seqs PROVE LaneAppended(Content[st], Content'[st], n)
  BY <1>1, <1>2
<1>4. Store!Append(n)
  <2>1. ASSUME NEW st \in Seqs, NEW s, NEW p, \A u \in Content[st] : s \in u.seqs => u.pos < p
        PROVE  Store!Behind(st, s, p)
    BY <2>1 DEF Store!Behind
  <2>2. ASSUME NEW st \in Seqs, NEW new, new = Content'[st] \ Content[st]
        PROVE  /\ Content[st] \subseteq Content'[st]
               /\ new # {} =>
                     /\ Store!Cardinality(new) = n
                     /\ \A t \in new : /\ t.seqs # {}
                                       /\ \A s \in t.seqs : Store!Behind(st, s, t.pos)
                                       /\ \A u \in new : u.seqs = t.seqs /\ (u # t => u.pos # t.pos)
                                                         /\ u.pos - t.pos < n
    <3>1. LaneAppended(Content[st], Content'[st], n)
      BY <1>3
    <3> QED  BY <2>1, <2>2, <3>1, StoreCardinality, Zenon DEF LaneAppended
  <2> QED  BY <2>2, Zenon DEF Store!Append
<1>5. Cardinality(Positions) = MaxPos + 1
  BY FS_Interval, BoundAssumption DEF Positions
<1> QED  BY <1>4, <1>5

LEMMA RunUbatchStore ==
    ASSUME StoreInv, TrialInv', RunUbatch
    PROVE  StoreInv' /\ \E k \in 1..Cardinality(Positions) : Store!Append(k)
<1> DEFINE m == batch.at
           e == Entry(m)
           new == e.new
           N == Len(batch.stack)
<1>1. /\ batch.phase = "run" /\ Rewrite(new) /\ head' = HeadBehind(new)
      /\ batch' = IF m < N THEN [batch EXCEPT !.at = @ + 1] ELSE NoBatch
  BY DEF RunUbatch, Entry
<1>2. \/ batch'.phase = "run" /\ batch'.stack = batch.stack /\ batch'.at = m + 1
      \/ batch'.phase = "none" /\ Len(batch'.stack) = 0
  BY <1>1 DEF StoreInv, TrialInv, Inv, BatchOK, NoBatch
<1>3. m \in 1..N /\ N \in Nat /\ Visible = cells /\ Visible' = cells' /\ Contents(new)
  <2>1. N \in Nat
    BY DEF StoreInv, TrialInv, Inv, BatchOK, IsSeq
  <2>2. Visible' = cells'
    BY <1>2 DEF Visible
  <2> QED  BY <1>1, <2>1, <2>2, RunEntry, EntryFacts
<1>4. PICK n \in 1..MaxPos + 1 : Rows(new, n)
  BY <1>1, RunEntry
<1>5. \A st \in Seqs, i \in Idx :
         cells'[st][i] = IF i \in DOMAIN new[st] THEN new[st][i] ELSE cells[st][i]
  BY <1>1, <1>3, RewriteCells DEF StoreInv, TrialInv, Inv, BooksOK
<1>6. \A st \in Seqs : \A i \in DOMAIN new[st] :
         /\ i \in Idx /\ new[st][i] \in GoodCell /\ new[st][i].pos # -1 /\ new[st][i].pos <= MaxPos
         /\ new[st][i].seq = LaneSeqs(e.group, st)
         /\ cells[st][i].pos = -1
         /\ \A x \in Idx : Before(cells[st][x], new[st][i].seq, new[st][i].pos)
  BY <1>1, RunEntry
<1> HIDE DEF m, e, new, N
<1>7. ASSUME NEW st \in Seqs PROVE LaneAppended(Toks(cells[st]), Toks(cells'[st]), n)
  <2>1. CASE DOMAIN new[st] = {}
    <3>1. Toks(cells'[st]) = Toks(cells[st])
      BY <1>5, <2>1 DEF Toks
    <3> QED  BY <3>1, NothingAppended
  <2>2. CASE DOMAIN new[st] # {}
    <3> DEFINE q == LaneSeqs(e.group, st)
    <3>1. q # {}
      BY <1>6, <2>2 DEF GoodCell
    <3>2. Row(new[st], n) /\ DOMAIN new[st] \subseteq Idx /\ n \in Nat
      BY <1>4, <1>6, <2>2, BoundAssumption DEF Rows
    <3>3. \A i \in Idx : i \notin DOMAIN new[st] => cells'[st][i] = cells[st][i]
      BY <1>5
    <3>4. \A i \in DOMAIN new[st] :
             /\ cells[st][i].pos = -1
             /\ cells'[st][i].pos = new[st][i].pos /\ cells'[st][i].seq = q /\ new[st][i].pos # -1
             /\ \A x \in Idx : cells[st][x].pos # -1 => Before(cells[st][x], q, new[st][i].pos)
      BY <1>5, <1>6
    <3> HIDE DEF q
    <3> QED  BY <3>1, <3>2, <3>3, <3>4, RowAppended
  <2> QED  BY <2>1, <2>2
<1>8. \E k \in 1..Cardinality(Positions) : Store!Append(k)
  BY <1>1, <1>3, <1>7, Appends
<1>9. head' \in Heads
  <2>1. n \in Nat \ {0}
    BY BoundAssumption
  <2> QED  BY <1>1, <1>3, <1>4, <2>1, HeadBehindType DEF StoreInv
<1>10. Bounded(Visible')
  BY <1>3, <1>5, <1>6 DEF StoreInv, PosOK, Bounded
<1>11. HeadsOK' /\ PosOK' /\ RowsOK'
  <2>1. CASE batch'.stack = batch.stack
    BY <1>9, <1>10, <2>1 DEF StoreInv, HeadsOK, PosOK, RowsOK, Entry, Heads, Bounded
  <2>2. CASE Len(batch'.stack) = 0
    BY <1>9, <1>10, <2>2 DEF HeadsOK, PosOK, RowsOK, Heads, Bounded
  <2> QED  BY <1>2, <2>1, <2>2
<1>12. FreshOK'
  <2>1. CASE batch'.phase = "none"
    BY <2>1 DEF FreshOK, Active
  <2>2. CASE batch'.phase = "run" /\ batch'.stack = batch.stack /\ batch'.at = m + 1
    <3>1. Active /\ Pending = m /\ Pending' = m + 1
      BY <1>1, <2>2 DEF Active, Pending, m
    <3>2. ASSUME NEW k \in m + 1..N, NEW st \in Seqs, NEW i \in DOMAIN Entry(k).new[st]
          PROVE  /\ cells'[st][i].pos = -1
                 /\ \A x \in Idx : Before(cells'[st][x], Entry(k).new[st][i].seq, Entry(k).new[st][i].pos)
                 /\ \A j \in 1..k - 1 :
                       /\ i \notin DOMAIN Entry(j).new[st]
                       /\ \A x \in DOMAIN Entry(j).new[st] :
                             Before(Entry(j).new[st][x], Entry(k).new[st][i].seq, Entry(k).new[st][i].pos)
      <4>1. k \in m..N /\ m \in 1..k - 1 /\ k \in 1..N
        BY <1>3
      <4>2. /\ cells[st][i].pos = -1
            /\ \A x \in Idx : Before(cells[st][x], Entry(k).new[st][i].seq, Entry(k).new[st][i].pos)
            /\ \A j \in 1..k - 1 :
                  /\ i \notin DOMAIN Entry(j).new[st]
                  /\ \A x \in DOMAIN Entry(j).new[st] :
                        Before(Entry(j).new[st][x], Entry(k).new[st][i].seq, Entry(k).new[st][i].pos)
        BY <1>3, <3>1, <3>2, <4>1 DEF StoreInv, FreshOK, N
      <4>3. i \in Idx
        BY <3>2, <4>1, EntryFacts DEF N
      <4>4. /\ i \notin DOMAIN new[st]
            /\ \A x \in DOMAIN new[st] :
                  Before(new[st][x], Entry(k).new[st][i].seq, Entry(k).new[st][i].pos)
        BY <4>1, <4>2 DEF new, e
      <4>5. cells'[st][i].pos = -1
        BY <1>5, <4>2, <4>3, <4>4
      <4>6. \A x \in Idx : Before(cells'[st][x], Entry(k).new[st][i].seq, Entry(k).new[st][i].pos)
        BY <1>5, <4>2, <4>4
      <4> QED  BY <4>2, <4>5, <4>6
    <3>3. \A k : Entry(k)' = Entry(k)
      BY <2>2 DEF Entry
    <3> QED  BY <1>3, <2>2, <3>1, <3>2 DEF FreshOK, Entry, N
  <2> QED  BY <1>2, <2>1, <2>2
<1> QED  BY <1>8, <1>11, <1>12 DEF StoreInv

\* a micro-batch that fails leaves its row to the sequences behind the first of each token
LEMMA RunFailsStore ==
    ASSUME StoreInv, TrialInv', RunFails
    PROVE  StoreInv' /\ \E k \in 1..Cardinality(Positions) : Store!Append(k)
<1> DEFINE e == Entry(batch.at)
           new == e.new
           first(st) == Min(LaneSeqs(e.group, st))
           left == [st \in Seqs |-> [i \in DOMAIN new[st] |-> Less(new[st][i], first(st))]]
           freed(st) == {i \in DOMAIN left[st] : left[st][i].pos = -1}
           rest(st) == LaneSeqs(e.group, st) \ {first(st)}
<1>1. /\ batch.phase = "run" /\ Rewrite(left) /\ batch' = NoBatch
      /\ head' = [st \in Seqs |-> IF freed(st) # {} THEN Min(freed(st)) ELSE HeadBehind(new)[st]]
  BY DEF RunFails, Entry
<1>2. Visible = cells /\ Visible' = cells' /\ Contents(new)
  BY <1>1, RunEntry, EntryFacts DEF Visible, NoBatch
<1>3. PICK n \in 1..MaxPos + 1 : Rows(new, n)
  BY <1>1, RunEntry
<1>4. \A st \in Seqs : \A i \in DOMAIN new[st] :
         /\ i \in Idx /\ new[st][i] \in GoodCell /\ new[st][i].pos # -1 /\ new[st][i].pos <= MaxPos
         /\ new[st][i].seq = LaneSeqs(e.group, st)
         /\ cells[st][i].pos = -1
         /\ \A x \in Idx : Before(cells[st][x], new[st][i].seq, new[st][i].pos)
  BY <1>1, RunEntry
<1>5. \A st \in Seqs : /\ DOMAIN left[st] = DOMAIN new[st]
                       /\ \A i \in DOMAIN new[st] : left[st][i] = Less(new[st][i], first(st))
  OBVIOUS
<1> HIDE DEF e, new, first, left
<1>6. \A st \in Seqs : \A i \in DOMAIN new[st] :
         /\ left[st][i] \in GoodCell
         /\ rest(st) = {} => left[st][i].pos = -1
         /\ rest(st) # {} => left[st][i].pos = new[st][i].pos /\ left[st][i].seq = rest(st)
  <2> SUFFICES ASSUME NEW st \in Seqs, NEW i \in DOMAIN new[st]
               PROVE  /\ left[st][i] \in GoodCell
                      /\ rest(st) = {} => left[st][i].pos = -1
                      /\ rest(st) # {} => left[st][i].pos = new[st][i].pos /\ left[st][i].seq = rest(st)
    OBVIOUS
  <2> DEFINE c == new[st][i]
  <2>1. c \in GoodCell /\ c.seq = LaneSeqs(e.group, st) /\ left[st][i] = Less(c, first(st))
    BY <1>4, <1>5
  <2>2. Less(c, first(st)) \in GoodCell
    BY <2>1, LessGood
  <2> HIDE DEF c
  <2>3. CASE c.seq \subseteq {first(st)}
    BY <2>1, <2>2, <2>3 DEF Less, Empty, c
  <2>4. CASE ~ (c.seq \subseteq {first(st)})
    <3>1. Less(c, first(st)) = [c EXCEPT !.seq = @ \ {first(st)}]
      BY <2>4 DEF Less
    <3>2. rest(st) # {} /\ c.seq \ {first(st)} = rest(st)
      BY <2>1, <2>4
    <3>3. Less(c, first(st)).pos = c.pos /\ Less(c, first(st)).seq = c.seq \ {first(st)}
      BY <2>1, <3>1 DEF GoodCell
    <3> QED  BY <2>1, <2>2, <3>2, <3>3 DEF c
  <2> QED  BY <2>3, <2>4
<1>7. Contents(left)
  BY <1>4, <1>5, <1>6 DEF Contents
<1>8. \A st \in Seqs, i \in Idx :
         cells'[st][i] = IF i \in DOMAIN new[st] THEN left[st][i] ELSE cells[st][i]
  <2>1. \A st \in Seqs, i \in Idx :
           cells'[st][i] = IF i \in DOMAIN left[st] THEN left[st][i] ELSE cells[st][i]
    BY <1>1, <1>7, RewriteCells DEF StoreInv, TrialInv, Inv, BooksOK
  <2> QED  BY <1>5, <2>1
<1>9. ASSUME NEW st \in Seqs PROVE LaneAppended(Toks(cells[st]), Toks(cells'[st]), n)
  <2>1. CASE DOMAIN new[st] = {} \/ rest(st) = {}
    <3>1. \A i \in Idx : IF i \in DOMAIN new[st] THEN cells[st][i].pos = -1 /\ cells'[st][i].pos = -1
                                                 ELSE cells'[st][i] = cells[st][i]
      BY <1>4, <1>6, <1>8, <2>1
    <3>2. Toks(cells'[st]) = Toks(cells[st])
      BY <3>1 DEF Toks
    <3> QED  BY <3>2, NothingAppended
  <2>2. CASE DOMAIN new[st] # {} /\ rest(st) # {}
    <3> DEFINE q == rest(st)
    <3>1. Row(new[st], n) /\ DOMAIN new[st] \subseteq Idx /\ n \in Nat
      BY <1>3, <1>4, <2>2, BoundAssumption DEF Rows
    <3>2. \A i \in Idx : i \notin DOMAIN new[st] => cells'[st][i] = cells[st][i]
      BY <1>8
    <3>3. \A i \in DOMAIN new[st] :
             /\ cells[st][i].pos = -1
             /\ cells'[st][i].pos = new[st][i].pos /\ cells'[st][i].seq = q /\ new[st][i].pos # -1
      BY <1>4, <1>6, <1>8, <2>2
    <3>4. \A i \in DOMAIN new[st] : \A x \in Idx :
             cells[st][x].pos # -1 => Before(cells[st][x], q, new[st][i].pos)
      <4>1. q \subseteq LaneSeqs(e.group, st)
        OBVIOUS
      <4> HIDE DEF q
      <4> QED  BY <1>4, <4>1 DEF Before
    <3>5. q # {}
      BY <2>2
    <3> HIDE DEF q
    <3> QED  BY <3>1, <3>2, <3>3, <3>4, <3>5, RowAppended
  <2> QED  BY <2>1, <2>2
<1>10. \E k \in 1..Cardinality(Positions) : Store!Append(k)
  BY <1>1, <1>2, <1>9, Appends
<1>11. head' \in Heads
  <2>1. n \in Nat \ {0}
    BY BoundAssumption
  <2>2. HeadBehind(new) \in Heads
    BY <1>2, <1>3, <2>1, HeadBehindType DEF StoreInv
  <2>3. ASSUME NEW st \in Seqs, freed(st) # {} PROVE Min(freed(st)) \in 0..Size
    <3>1. freed(st) \subseteq Idx
      BY <1>4, <1>5
    <3> HIDE DEF freed
    <3>2. Min(freed(st)) \in Idx
      BY <2>3, <3>1, LeastCell
    <3> QED  BY <3>2, SizeAssumption DEF Idx
  <2> HIDE DEF freed
  <2> QED  BY <1>1, <2>2, <2>3 DEF Heads
<1>12. Bounded(cells')
  <2>1. \A st \in Seqs : \A i \in DOMAIN new[st] : left[st][i].pos <= MaxPos
    BY <1>4, <1>6, BoundAssumption
  <2> QED  BY <1>2, <1>8, <2>1 DEF StoreInv, PosOK, Bounded
<1>13. Len(batch'.stack) = 0 /\ batch'.phase = "none"
  BY <1>1 DEF NoBatch
<1> QED  BY <1>2, <1>10, <1>11, <1>12, <1>13
         DEF StoreInv, HeadsOK, PosOK, RowsOK, FreshOK, Active, Heads, Bounded

LEMMA CallStore ==
    ASSUME StoreInv, TrialInv', Calls
    PROVE  StoreInv' /\ Store!Next
<1>0. /\ \A p \in Bounds : p \in Nat /\ p \in Store!Bounds
      /\ \A p \in Bounds : \A x \in p + 1..MaxPos + 1 : x \in Nat /\ x \in Store!Bounds /\ p < x
      /\ Deltas \subseteq Int /\ Divisors \subseteq Nat \ {0}
  <2>1. Store!Bounds = Bounds
    <3>1. Store!Bounds = Positions \cup {p + 1 : p \in Positions}
      BY DEF Store!Bounds
    <3>2. MaxPos \in Nat /\ Positions = 0..MaxPos /\ Bounds = 0..MaxPos + 1
      BY BoundAssumption DEF Positions, Bounds
    <3>3. MaxPos + 1 \in {p + 1 : p \in Positions}
      BY <3>2
    <3>4. \A p \in Positions : p + 1 \in Bounds
      BY <3>2
    <3>5. \A p \in Bounds : p \in Positions \/ p = MaxPos + 1
      BY <3>2
    <3> QED  BY <3>1, <3>2, <3>3, <3>4, <3>5
  <2> QED  BY <2>1, BoundAssumption, ShiftAssumption DEF Bounds
<1>1. CASE Clear
  BY <1>1, ClearStore DEF Store!Next
<1>2. ASSUME NEW p0 \in Bounds, NEW p1 \in p0 + 1..MaxPos + 1, SeqRmAny(p0, p1)
      PROVE  StoreInv' /\ Store!Next
  BY <1>0, <1>2, SeqRmAnyStore DEF Store!Next
<1>3. ASSUME NEW s \in Seqs, SeqKeep(s) PROVE StoreInv' /\ Store!Next
  BY <1>3, StreamType, SeqKeepStore DEF Store!Next
<1>4. ASSUME NEW s \in Seqs, NEW d \in Seqs, SeqCpStream(s, d) PROVE StoreInv' /\ Store!Next
  BY <1>4, SeqCpStreamStore DEF Store!Next
<1>5. ASSUME NEW s \in Seqs, NEW p0 \in Bounds, NEW p1 \in p0 + 1..MaxPos + 1,
             \/ SeqRm(s, p0, p1)
             \/ \E d \in Seqs : SeqCpShare(s, d, p0, p1)
             \/ \E delta \in Deltas : SeqAdd(s, p0, p1, delta)
             \/ \E by \in Divisors : SeqDiv(s, p0, p1, by)
      PROVE  StoreInv' /\ Store!Next
  <2>0. /\ p0 \in Nat /\ p1 \in Nat /\ p0 < p1 /\ p0 \in Store!Bounds /\ p1 \in Store!Bounds
        /\ StreamOf(s) \in Seqs
    BY <1>0, StreamType
  <2>1. CASE SeqRm(s, p0, p1)
    BY <2>0, <2>1, SeqRmStore DEF Store!Next
  <2>2. CASE \E d \in Seqs : SeqCpShare(s, d, p0, p1)
    BY <2>0, <2>2, SeqCpShareStore DEF Store!Next
  <2>3. CASE \E delta \in Deltas : SeqAdd(s, p0, p1, delta)
    BY <1>0, <2>0, <2>3, SeqAddStore DEF Store!Next
  <2>4. CASE \E by \in Divisors : SeqDiv(s, p0, p1, by)
    BY <1>0, <2>0, <2>4, SeqDivStore DEF Store!Next
  <2> QED  BY <1>5, <2>1, <2>2, <2>3, <2>4
<1> QED  BY <1>1, <1>2, <1>3, <1>4, <1>5 DEF Calls

LEMMA StoreStep == StoreInv /\ [Next]_vars => StoreInv' /\ [Store!Next]_Content
<1> SUFFICES ASSUME StoreInv, [Next]_vars PROVE StoreInv' /\ (Store!Next \/ Content' = Content)
  OBVIOUS
<1>0. TrialInv'
  BY TrialStep DEF StoreInv
<1>1. CASE UNCHANGED vars
  <2>1. UNCHANGED <<unified, cells, head, batch>>
    BY <1>1 DEF vars, books, meta
  <2>2. Visible' = Visible
    BY <2>1 DEF Visible
  <2>3. HeadsOK' /\ PosOK'
    BY <2>1, <2>2 DEF StoreInv, HeadsOK, PosOK, Entry, Heads, Bounded
  <2>4. RowsOK' /\ FreshOK'
    BY <2>1, <2>2 DEF StoreInv, RowsOK, FreshOK, Active, Pending, Entry
  <2> QED  BY <1>0, <2>2, <2>3, <2>4, ContentKept DEF StoreInv
<1>2. CASE Calls
  BY <1>0, <1>2, CallStore
<1>3. CASE Decode
  <2>1. ASSUME NEW group \in Groups, NEW n \in 1..MaxUbatch, PlaceUbatch(group, n)
        PROVE  StoreInv' /\ Content' = Content
    <3>1. n \in Nat \ {0}
      BY BoundAssumption
    <3> QED  BY <1>0, <2>1, <3>1, PlaceUbatchStore
  <2>2. ASSUME NEW group \in Groups, NEW n \in 1..MaxUbatch, PlaceFails(group, n)
        PROVE  StoreInv' /\ Content' = Content
    BY <1>0, <2>2, TurnStore
  <2>3. CASE PlaceEnd \/ RestoreOne
    BY <1>0, <2>3, TurnStore
  <2>4. CASE DecodeStart \/ CopyStream \/ ApplyShift \/ UpdateEnd
    BY <1>0, <2>4, UpdateStore
  <2>5. CASE RestoreEnd
    BY <1>0, <2>5, RestoreEndStore
  <2>6. CASE RunUbatch \/ RunFails
    <3>1. StoreInv' /\ \E k \in 1..Cardinality(Positions) : Store!Append(k)
      BY <1>0, <2>6, RunUbatchStore, RunFailsStore
    <3>2. \E k \in 1..Store!Cardinality(Positions) : Store!Append(k)
      BY <3>1, StoreCardinality
    <3> QED  BY <3>1, <3>2 DEF Store!Next
  <2> QED  BY <1>3, <2>1, <2>2, <2>3, <2>4, <2>5, <2>6 DEF Decode
<1> QED  BY <1>1, <1>2, <1>3 DEF Next

\* The cache implements the store of llama.h: every call of llama_memory_* and every phase of
\* llama_decode changes the tokens, their positions and their sequences as the store's operation
\* of that name does, or not at all, for any number of cells, sequences and micro-batches.  A batch
\* on trial is never seen, the micro-batches computed after it stand, each as one row of
\* consecutive positions behind all its sequences, where the trial found room for them, and one
\* that fails leaves nothing, or that row with the sequences that its removal does not reach.
THEOREM StoreImplemented == Spec => ImplementsStore
<1>1. Init => StoreInv /\ Store!Init
  BY InitStore, InitContent
<1>2. StoreInv /\ [Next]_vars => StoreInv' /\ [Store!Next]_Content
  BY StoreStep
<1> QED  BY <1>1, <1>2, PTL DEF ImplementsStore, Store!Spec, Spec

-----------------------------------------------------------------------------
(***************************************************************************)
(* Types.  The cells stay in the bound through a trial because its entries do. *)
(***************************************************************************)
BuffersOK == /\ data \in [Seqs -> [Idx -> Keys]]
             /\ copies \in Seq(Seqs \X Seqs)
             /\ calls \in Nat

LEMMA BuffersStep == StoreInv /\ BuffersOK /\ [Next]_vars => BuffersOK'
<1> SUFFICES ASSUME StoreInv, BuffersOK, [Next]_vars PROVE BuffersOK'
  OBVIOUS
<1>1. CASE UNCHANGED vars
  BY <1>1 DEF vars, BuffersOK
<1>2. CASE Calls
  <2> DEFINE Goal == /\ calls' = calls + 1 /\ data' = data
                     /\ \/ copies' = copies
                        \/ \E s, d \in Seqs : copies' = Append(copies, <<s, d>>)
  <2>1. Clear => Goal
    BY DEF Clear, CallDone
  <2>2. ASSUME NEW p0 \in Bounds, NEW p1 \in p0 + 1..MaxPos + 1, SeqRmAny(p0, p1) PROVE Goal
    BY <2>2 DEF SeqRmAny, CallDone
  <2>3. ASSUME NEW s \in Seqs, SeqKeep(s) PROVE Goal
    BY <2>3 DEF SeqKeep, CallDone
  <2>4. ASSUME NEW s \in Seqs, NEW d \in Seqs, SeqCpStream(s, d) PROVE Goal
    BY <2>4 DEF SeqCpStream, CallDone
  <2>5. ASSUME NEW s \in Seqs, NEW p0 \in Bounds, NEW p1 \in p0 + 1..MaxPos + 1,
               \/ SeqRm(s, p0, p1)
               \/ \E d \in Seqs : SeqCpShare(s, d, p0, p1)
               \/ \E delta \in Deltas : SeqAdd(s, p0, p1, delta)
               \/ \E by \in Divisors : SeqDiv(s, p0, p1, by)
        PROVE  Goal
    <3>1. SeqRm(s, p0, p1) => Goal
      BY DEF SeqRm, CallDone
    <3>2. ASSUME NEW d \in Seqs, SeqCpShare(s, d, p0, p1) PROVE Goal
      BY <3>2 DEF SeqCpShare, CallDone
    <3>3. ASSUME NEW delta \in Deltas, SeqAdd(s, p0, p1, delta) PROVE Goal
      BY <3>3 DEF SeqAdd, CallDone
    <3>4. ASSUME NEW by \in Divisors, SeqDiv(s, p0, p1, by) PROVE Goal
      BY <3>4 DEF SeqDiv, CallDone
    <3> HIDE DEF Goal
    <3> QED  BY <2>5, <3>1, <3>2, <3>3, <3>4
  <2>6. Goal
    <3> HIDE DEF Goal
    <3> QED  BY <1>2, <2>1, <2>2, <2>3, <2>4, <2>5 DEF Calls
  <2>7. \A s, d \in Seqs : Append(copies, <<s, d>>) \in Seq(Seqs \X Seqs)
    BY DEF BuffersOK
  <2>8. copies' \in Seq(Seqs \X Seqs)
    <3>1. CASE copies' = copies
      BY <3>1 DEF BuffersOK
    <3>2. CASE \E s, d \in Seqs : copies' = Append(copies, <<s, d>>)
      BY <2>7, <3>2
    <3> QED  BY <2>6, <3>1, <3>2
  <2>9. calls' \in Nat /\ data' \in [Seqs -> [Idx -> Keys]]
    BY <2>6 DEF BuffersOK
  <2> QED  BY <2>8, <2>9 DEF BuffersOK
<1>3. CASE Decode
  <2>1. calls' = calls
    BY <1>3 DEF Decode, DecodeStart, CopyStream, ApplyShift, UpdateEnd, PlaceUbatch, PlaceFails,
                PlaceEnd, RestoreOne, RestoreEnd, RunUbatch, RunFails
  <2>2. CASE CopyStream
    <3>1. Head(copies) \in Seqs \X Seqs /\ Tail(copies) \in Seq(Seqs \X Seqs)
      BY <2>2 DEF CopyStream, BuffersOK
    <3>2. Head(copies)[1] \in Seqs
      BY <3>1
    <3> QED  BY <2>1, <2>2, <3>1, <3>2 DEF CopyStream, BuffersOK
  <2>3. CASE ApplyShift
    <3>1. \A k \in Keys : \A n \in Int : [k EXCEPT !.at = @ + n] \in Keys
      BY DEF Keys
    <3>2. \A st \in Seqs, i \in Idx : cells[st][i].shift \in Int /\ data[st][i] \in Keys
      BY DEF StoreInv, TrialInv, Inv, BooksOK, CellsOK, GoodCell, BuffersOK
    <3>3. \A st \in Seqs, i \in Idx : [data[st][i] EXCEPT !.at = @ + cells[st][i].shift] \in Keys
      BY <3>1, <3>2
    <3>4. data' \in [Seqs -> [Idx -> Keys]]
      BY <2>3, <3>3 DEF ApplyShift
    <3> QED  BY <2>1, <2>3, <3>4 DEF ApplyShift, BuffersOK
  <2>4. CASE RunUbatch
    <3> DEFINE new == Entry(batch.at).new
    <3>1. data' = [st \in Seqs |-> [i \in Idx |->
                     IF i \in DOMAIN new[st] THEN [id |-> new[st][i].id, at |-> new[st][i].pos]
                                             ELSE data[st][i]]]
      BY <2>4 DEF RunUbatch, Entry
    <3>2. \A st \in Seqs : \A i \in DOMAIN new[st] : new[st][i] \in GoodCell
      BY <2>4, RunEntry DEF RunUbatch
    <3> HIDE DEF new
    <3>3. \A c \in GoodCell : [id |-> c.id, at |-> c.pos] \in Keys
      BY DEF GoodCell, Keys
    <3>4. \A st \in Seqs, i \in Idx : data[st][i] \in Keys
      BY DEF BuffersOK
    <3>5. data' \in [Seqs -> [Idx -> Keys]]
      BY <3>1, <3>2, <3>3, <3>4
    <3> QED  BY <2>1, <2>4, <3>5 DEF RunUbatch, BuffersOK
  <2>5. CASE ~ (CopyStream \/ ApplyShift \/ RunUbatch)
    <3>1. data' = data /\ copies' = copies
      BY <1>3, <2>5 DEF Decode, DecodeStart, UpdateEnd, PlaceUbatch, PlaceFails,
                        PlaceEnd, RestoreOne, RestoreEnd, RunFails
    <3> QED  BY <2>1, <3>1 DEF BuffersOK
  <2> QED  BY <2>2, <2>3, <2>4, <2>5
<1> QED  BY <1>1, <1>2, <1>3 DEF Next

LEMMA CellsInBounds ==
    ASSUME StoreInv, NEW st \in Seqs, NEW i \in Idx
    PROVE  cells[st][i] \in Cells
<1>1. cells[st][i] \in GoodCell
  BY DEF StoreInv, TrialInv, Inv, BooksOK, CellsOK
<1>2. cells[st][i].pos <= MaxPos
  <2>1. CASE batch.phase \in {"prepare", "restore"}
    <3>1. Visible = batch.origin
      BY <2>1 DEF Visible
    <3>2. OnTrial <= Len(batch.stack) /\ OnTrial \in Nat /\ Len(batch.stack) \in Nat
      BY <2>1 DEF OnTrial, StoreInv, TrialInv, Inv, BatchOK, IsSeq
    <3>3. \A k \in 1..OnTrial : k \in 1..Len(batch.stack)
      BY <3>2
    <3>4. CASE \E k \in 1..OnTrial : i \in DOMAIN Entry(k).new[st]
      BY <2>1, <3>3, <3>4 DEF StoreInv, TrialInv, TrialOK, PosOK
    <3>5. CASE ~ \E k \in 1..OnTrial : i \in DOMAIN Entry(k).new[st]
      BY <2>1, <3>1, <3>5 DEF StoreInv, TrialInv, TrialOK, PosOK, Bounded
    <3> QED  BY <3>4, <3>5
  <2>2. CASE batch.phase \notin {"prepare", "restore"}
    BY <2>2 DEF Visible, StoreInv, PosOK, Bounded
  <2> QED  BY <2>1, <2>2
<1> QED  BY <1>1, <1>2, BoundAssumption DEF GoodCell, Cells, Positions

LEMMA TypesHold == StoreInv /\ BuffersOK => TypeOK
<1> SUFFICES ASSUME StoreInv, BuffersOK PROVE TypeOK
  OBVIOUS
<1>1. cells \in [Seqs -> [Idx -> Cells]]
  BY CellsInBounds DEF StoreInv, TrialInv, Inv, BooksOK, CellsOK
<1>2. used \in [Seqs -> SUBSET Idx]
  BY DEF StoreInv, TrialInv, Inv, BooksOK, UsedOK
<1>3. count \in [Seqs -> [Seqs -> [Positions -> Nat]]]
  <2>1. \A st \in Seqs, s \in Seqs, p \in Positions : Cardinality(Occurs(st, s, p)) \in Nat
    <3>1. \A st, s, p : IsFiniteSet(Occurs(st, s, p))
      BY IdxFinite, FS_Subset DEF Occurs
    <3> QED  BY <3>1, FS_CardinalityType
  <2> QED  BY <2>1 DEF StoreInv, TrialInv, Inv, BooksOK, CountOK
<1>4. batch.phase \in {"none", "update", "prepare", "restore", "run"}
  BY DEF StoreInv, TrialInv, Inv, BatchOK
<1>5. /\ unified \in BOOLEAN /\ hasShift \in [Seqs -> BOOLEAN] /\ tokens \in Nat
      /\ head \in [Seqs -> 0..Size]
  BY DEF StoreInv, TrialInv, Inv, HeadsOK, Heads
<1> QED  BY <1>1, <1>2, <1>3, <1>4, <1>5 DEF TypeOK, BuffersOK, Keys

\* Types: among them that a search head never leaves the ring, although the restoration of a
\* trial puts back heads it saved for other streams, and that no position leaves the bound.
THEOREM TypeCorrect == Spec => []TypeOK
<1>1. Init => StoreInv /\ BuffersOK
  <2>1. Init => BuffersOK
    BY DEF Init, BuffersOK, Keys
  <2> QED  BY <2>1, InitStore
<1>2. StoreInv /\ BuffersOK /\ [Next]_vars => StoreInv' /\ BuffersOK'
  BY StoreStep, BuffersStep
<1> QED  BY <1>1, <1>2, TypesHold, PTL DEF Spec
=============================================================================
