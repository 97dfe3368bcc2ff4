------------------------------ MODULE KvCache ------------------------------
(***************************************************************************)
(* The KV cache of llama-kv-cache.cpp over the cells of llama-kv-cells.h,   *)
(* without a sliding attention window.  One thread uses it; what makes it   *)
(* hard is that four books describe the same cells (positions and sequences, *)
(* the used set, the position counts of each sequence, the pending shifts), *)
(* that a batch is placed and taken back before it is computed, and that the *)
(* rotation of the keys lags behind the positions.                          *)
(*                                                                          *)
(* A call is one action, except llama_decode, whose phases are actions:     *)
(* pending copies, pending shift, trial placement of each micro-batch, the  *)
(* restoration, and the computation of each micro-batch.                    *)
(***************************************************************************)
EXTENDS Integers, Sequences, FiniteSets, FiniteSetsExt

CONSTANTS
    Size,        \* cells of a stream
    Seqs,        \* the sequences, 0..n-1, which number the streams too
    MaxPos,      \* bound: positions
    MaxTokens,   \* bound: tokens computed in a behaviour
    MaxCalls,    \* bound: calls between the batches of a behaviour
    MaxBatch,    \* bound: micro-batches of a batch
    MaxUbatch,   \* n_ubatch
    Groups,      \* the sets of sequences that the tokens of a batch belong to
    Failing,     \* bound: those of Groups whose computation may fail
    Deltas, Divisors

ASSUME SizeAssumption  == Size \in Nat \ {0}
ASSUME SeqsAssumption  == Seqs = 0..Cardinality(Seqs) - 1 /\ IsFiniteSet(Seqs) /\ Seqs # {}
ASSUME BoundAssumption == MaxPos \in Nat /\ MaxTokens \in Nat /\ MaxBatch \in Nat
                          /\ MaxCalls \in Nat /\ MaxUbatch \in Nat
ASSUME GroupAssumption == Groups \subseteq (SUBSET Seqs) \ {{}} /\ Failing \subseteq Groups
ASSUME ShiftAssumption == Deltas \subseteq Int \ {0} /\ Divisors \subseteq Nat \ {0}

VARIABLES
    unified,     \* n_stream = 1: all sequences in stream 0; otherwise one stream each
    cells,       \* cells[st][i]: pos, shift and seq of a cell; for the properties, the
                 \* token it is for and whether its position was ever divided
    used,        \* used[st]: the indices of non-empty cells
    count,       \* seq_pos: count[st][s][p], how often position p occurs for s
    hasShift,    \* has_shift of each stream
    head,        \* v_heads
    copies,      \* sc_info: stream copies that wait for the next update
    data,        \* data[st][i]: the token whose key is in the buffer and its rotation
    batch,       \* the progress of llama_decode, with the cells before the trial
    tokens,      \* tokens computed or tried so far: the next token's name
    calls        \* calls made so far

meta  == <<cells, used, count>>
books == <<meta, hasShift, head>>
vars  == <<unified, books, copies, data, batch, tokens, calls>>

Idx       == 0..Size - 1
Positions == 0..MaxPos
Bounds    == 0..MaxPos + 1               \* p0 < p1, a negative one replaced by 0 or the end
StreamOf(s) == IF unified THEN 0 ELSE s
Streams     == IF unified THEN {0} ELSE Seqs

Empty == [id |-> 0, pos |-> -1, shift |-> 0, seq |-> {}, divided |-> FALSE]
NoBatch == [phase |-> "none", stack |-> <<>>, at |-> 0, placed |-> TRUE, origin |-> <<>>]

Init ==
    /\ unified \in BOOLEAN
    /\ cells = [st \in Seqs |-> [i \in Idx |-> Empty]]
    /\ used = [st \in Seqs |-> {}]
    /\ count = [st \in Seqs |-> [s \in Seqs |-> [p \in Positions |-> 0]]]
    /\ hasShift = [st \in Seqs |-> FALSE]
    /\ head = [st \in Seqs |-> 0]
    /\ copies = <<>>
    /\ data = [st \in Seqs |-> [i \in Idx |-> [id |-> 0, at |-> 0]]]
    /\ batch = NoBatch
    /\ tokens = 0 /\ calls = 0

-----------------------------------------------------------------------------
(***************************************************************************)
(* llama-kv-cells.h: the books are kept cell by cell.                       *)
(***************************************************************************)
Holds(c, s, p)     == s \in c.seq /\ c.pos = p
InRange(c, p0, p1) == c.pos >= p0 /\ c.pos < p1

\* new[st] gives new contents to some cells of stream st; their old positions are counted
\* out and the new ones in
Rewrite(new) ==
    LET hit(st) == DOMAIN new[st] IN
    /\ cells' = [st \in Seqs |-> [i \in Idx |-> IF i \in hit(st) THEN new[st][i] ELSE cells[st][i]]]
    /\ used' = [st \in Seqs |-> {i \in Idx : IF i \in hit(st) THEN cells'[st][i].pos # -1
                                                              ELSE i \in used[st]}]
    /\ count' = [st \in Seqs |-> [s \in Seqs |-> [p \in Positions |->
          count[st][s][p] - Cardinality({i \in hit(st) : Holds(cells[st][i], s, p)})
                          + Cardinality({i \in hit(st) : Holds(cells'[st][i], s, p)})]]]

\* one stream only; F gives each hit cell its new contents
RewriteStream(st, hit, F(_)) ==
    Rewrite([x \in Seqs |-> [i \in (IF x = st THEN hit ELSE {}) |-> F(cells[x][i])]])

PosMax(st, s) == Max({-1} \cup {p \in Positions : count[st][s][p] > 0})

\* the search starts at the first cell freed, if that is before the present head
LowerHead(st, freed) == IF freed # {} /\ Min(freed) < head[st] THEN Min(freed) ELSE head[st]

\* variant: a cell is not freed with its last sequence
LessKept(c, s) == [c EXCEPT !.seq = @ \ {s}]

\* a cell without sequence s
Less(c, s) == IF c.seq \subseteq {s} THEN Empty ELSE [c EXCEPT !.seq = @ \ {s}]

\* variant: whatever the sequence
HitAny(st, s, p0, p1) == {i \in Idx : InRange(cells[st][i], p0, p1)}

\* the cells of stream st that hold s at a position in range
Hit(st, s, p0, p1) == {i \in Idx : InRange(cells[st][i], p0, p1) /\ s \in cells[st][i].seq}

-----------------------------------------------------------------------------
(***************************************************************************)
(* llama_memory_*: calls between two batches.                               *)
(***************************************************************************)
Quiet    == batch.phase = "none"
CallDone == calls < MaxCalls /\ calls' = calls + 1 /\ UNCHANGED <<unified, data, batch, tokens>>

Clear ==
    /\ Quiet
    /\ cells' = [st \in Seqs |-> [i \in Idx |-> Empty]]
    /\ used' = [st \in Seqs |-> {}]
    /\ count' = [st \in Seqs |-> [s \in Seqs |-> [p \in Positions |-> 0]]]
    /\ hasShift' = [st \in Seqs |-> FALSE]
    /\ head' = [st \in Seqs |-> 0]
    /\ UNCHANGED copies /\ CallDone

SeqRm(s, p0, p1) ==
    LET st == StreamOf(s) IN
    /\ Quiet
    /\ RewriteStream(st, Hit(st, s, p0, p1), LAMBDA c : Less(c, s))
    /\ head' = [head EXCEPT ![st] = LowerHead(st, {i \in Hit(st, s, p0, p1) : cells[st][i].seq = {s}})]
    /\ UNCHANGED <<hasShift, copies>> /\ CallDone

\* seq_id -1: whatever the sequence
SeqRmAny(p0, p1) ==
    LET hit == [st \in Seqs |-> {i \in Idx : InRange(cells[st][i], p0, p1)}] IN
    /\ Quiet
    /\ Rewrite([st \in Seqs |-> [i \in hit[st] |-> Empty]])
    /\ head' = [st \in Seqs |-> LowerHead(st, hit[st])]
    /\ UNCHANGED <<hasShift, copies>> /\ CallDone

\* within a stream only the books change.  seq_add asserts that the cell does not hold the
\* destination yet: callers remove the destination before they copy.
SeqCpShare(s, d, p0, p1) ==
    LET st == StreamOf(s) IN
    /\ Quiet
    /\ s # d /\ st = StreamOf(d)
    /\ \A i \in Hit(st, s, p0, p1) : d \notin cells[st][i].seq
    /\ RewriteStream(st, Hit(st, s, p0, p1), LAMBDA c : [c EXCEPT !.seq = @ \cup {d}])
    /\ UNCHANGED <<hasShift, head, copies>> /\ CallDone

\* between streams the books are rebuilt at once and the buffers copied by the next
\* update, before its shift: a copied cell owes the shift that its source owes
SeqCpStream(s, d) ==
    LET from == cells[s]
        src  == {i \in Idx : s \in from[i].seq} IN
    /\ Quiet
    /\ ~unified /\ s # d
    /\ Rewrite([st \in Seqs |-> [i \in (IF st = d THEN Idx ELSE {}) |->
                   IF i \in src THEN [from[i] EXCEPT !.seq = {d}] ELSE Empty]])
    /\ hasShift' = [hasShift EXCEPT ![d] = \E i \in src : from[i].shift # 0]
    /\ head' = [head EXCEPT ![d] = head[s]]
    /\ copies' = Append(copies, <<s, d>>)
    /\ CallDone

SeqKeep(s) ==
    LET st == StreamOf(s) IN
    /\ Quiet
    /\ RewriteStream(st, used[st], LAMBDA c : IF s \in c.seq THEN [c EXCEPT !.seq = {s}] ELSE Empty)
    /\ head' = [head EXCEPT ![st] = LowerHead(st, {i \in used[st] : s \notin cells[st][i].seq})]
    /\ UNCHANGED <<hasShift, copies>> /\ CallDone

Moved(c, delta) == IF c.pos + delta < 0 THEN Empty
                   ELSE [c EXCEPT !.pos = @ + delta, !.shift = @ + delta]

\* the position belongs to the cell: every sequence in it moves
SeqAdd(s, p0, p1, delta) ==
    LET st    == StreamOf(s)
        hit   == Hit(st, s, p0, p1)
        freed == {i \in hit : cells[st][i].pos + delta < 0} IN
    /\ Quiet
    /\ \A i \in hit : cells[st][i].pos + delta <= MaxPos
    /\ RewriteStream(st, hit, LAMBDA c : Moved(c, delta))
    /\ hasShift' = [hasShift EXCEPT ![st] = @ \/ hit # {}]
    /\ head' = [head EXCEPT ![st] = IF freed # {} THEN Min(freed) ELSE 0]
    /\ UNCHANGED copies /\ CallDone

\* pos_div adds the old position minus the new one to the shift, pos_add the opposite
Divided(c, by) == [c EXCEPT !.pos = @ \div by, !.shift = @ + (c.pos - (c.pos \div by)),
                            !.divided = TRUE]

SeqDiv(s, p0, p1, by) ==
    LET st == StreamOf(s) IN
    /\ Quiet
    /\ by # 1
    /\ RewriteStream(st, Hit(st, s, p0, p1), LAMBDA c : Divided(c, by))
    /\ hasShift' = [hasShift EXCEPT ![st] = @ \/ Hit(st, s, p0, p1) # {}]
    /\ UNCHANGED <<head, copies>> /\ CallDone

-----------------------------------------------------------------------------
(***************************************************************************)
(* llama_decode: first what earlier calls left to do to the buffers.        *)
(***************************************************************************)
DecodeStart ==
    /\ Quiet
    /\ tokens < MaxTokens
    /\ batch' = [NoBatch EXCEPT !.phase = "update"]
    /\ UNCHANGED <<calls, unified, books, copies, data, tokens>>

CopyStream ==
    /\ batch.phase = "update" /\ copies # <<>>
    /\ LET c == Head(copies) IN data' = [data EXCEPT ![c[2]] = data[c[1]]]
    /\ copies' = Tail(copies)
    /\ UNCHANGED <<calls, unified, books, batch, tokens>>

\* variant: not after the copies
ApplyShiftFirst ==
    /\ batch.phase = "update"
    /\ \E st \in Streams : hasShift[st]
    /\ data' = [st \in Seqs |-> [i \in Idx |-> [data[st][i] EXCEPT !.at = @ + cells[st][i].shift]]]
    /\ cells' = [st \in Seqs |-> [i \in Idx |-> [cells[st][i] EXCEPT !.shift = 0]]]
    /\ hasShift' = [st \in Seqs |-> FALSE]
    /\ UNCHANGED <<calls, unified, used, count, head, copies, batch, tokens>>

\* the keys are rotated by the accumulated shifts, then reset_shift
ApplyShift ==
    /\ batch.phase = "update" /\ copies = <<>>
    /\ \E st \in Streams : hasShift[st]
    /\ data' = [st \in Seqs |-> [i \in Idx |-> [data[st][i] EXCEPT !.at = @ + cells[st][i].shift]]]
    /\ cells' = [st \in Seqs |-> [i \in Idx |-> [cells[st][i] EXCEPT !.shift = 0]]]
    /\ hasShift' = [st \in Seqs |-> FALSE]
    /\ UNCHANGED <<calls, unified, used, count, head, copies, batch, tokens>>

UpdateEnd ==
    /\ batch.phase = "update" /\ copies = <<>>
    /\ \A st \in Streams : ~hasShift[st]
    /\ batch' = [batch EXCEPT !.phase = "prepare", !.origin = cells]
    /\ UNCHANGED <<calls, unified, books, copies, data, tokens>>

-----------------------------------------------------------------------------
(***************************************************************************)
(* prepare: every micro-batch is placed on trial, then all is taken back.   *)
(***************************************************************************)
Lanes(group)        == {StreamOf(s) : s \in group}
LaneSeqs(group, st) == {s \in group : StreamOf(s) = st}

\* find_slot: the first n empty cells from the head on, around the ring; from cell 0 when
\* there is room enough before the head
EmptyCells(st)    == {i \in Idx : cells[st][i].pos = -1}
SearchFrom(st, n) == IF head[st] > Cardinality(used[st]) + 2 * n THEN 0 ELSE head[st]
Distance(i, from) == (i - from) % Size
Order(st, n, i)   ==
    LET from == SearchFrom(st, n)
    IN  Cardinality({j \in EmptyCells(st) : Distance(j, from) < Distance(i, from)})
Slot(st, n)       == {i \in EmptyCells(st) : Order(st, n, i) < n}
HasRoom(st, n)    == Cardinality(EmptyCells(st)) >= n

FirstPos(group, st) == PosMax(st, Min(LaneSeqs(group, st))) + 1

\* the cells that apply_ubatch fills, in each stream of the micro-batch
Placement(group, n) ==
    [st \in Seqs |->
        [i \in (IF st \in Lanes(group) THEN Slot(st, n) ELSE {}) |->
            [id |-> tokens + 1 + Order(st, n, i), pos |-> FirstPos(group, st) + Order(st, n, i),
             shift |-> 0, seq |-> LaneSeqs(group, st), divided |-> FALSE]]]

\* the head moves behind the cell of the last token
LastCell(new) == CHOOSE i \in DOMAIN new : \A j \in DOMAIN new : new[j].pos <= new[i].pos
HeadBehind(new) == [st \in Seqs |-> IF DOMAIN new[st] = {} THEN head[st] ELSE LastCell(new[st]) + 1]

\* sequences that share tokens of the batch begin and end at the same positions before it
Stored(st, s) == {batch.origin[st][i].pos : i \in {j \in Idx : s \in batch.origin[st][j].seq}}
Ends(S)       == IF S = {} THEN {} ELSE {Min(S), Max(S)}
Coupled(group) == \A s, d \in group : StreamOf(s) = StreamOf(d) =>
                      Ends(Stored(StreamOf(s), s)) = Ends(Stored(StreamOf(d), d))

\* and positions continue every sequence
Acceptable(group, n) ==
    /\ tokens + n <= MaxTokens
    /\ Coupled(group)
    /\ \A s \in group :
          /\ PosMax(StreamOf(s), s) + n <= MaxPos
          /\ PosMax(StreamOf(s), s) + 1 = FirstPos(group, StreamOf(s))

PlaceUbatch(group, n) ==
    LET new == Placement(group, n) IN
    /\ batch.phase = "prepare" /\ Len(batch.stack) < MaxBatch
    /\ Acceptable(group, n)
    /\ \A st \in Lanes(group) : HasRoom(st, n)
    /\ batch' = [batch EXCEPT !.stack = Append(@,
                   [group |-> group, new |-> new, heads |-> head,
                    old |-> [st \in Seqs |-> [i \in DOMAIN new[st] |-> cells[st][i]]]])]
    /\ Rewrite(new)
    /\ head' = HeadBehind(new)
    /\ tokens' = tokens + n
    /\ UNCHANGED <<calls, unified, hasShift, copies, data>>

PlaceFails(group, n) ==
    /\ batch.phase = "prepare" /\ Len(batch.stack) < MaxBatch
    /\ Acceptable(group, n)
    /\ \E st \in Lanes(group) : ~HasRoom(st, n)
    /\ batch' = [batch EXCEPT !.phase = "restore", !.at = Len(batch.stack), !.placed = FALSE]
    /\ UNCHANGED <<calls, unified, books, copies, data, tokens>>

PlaceEnd ==
    /\ batch.phase = "prepare" /\ batch.stack # <<>>
    /\ batch' = [batch EXCEPT !.phase = "restore", !.at = Len(batch.stack)]
    /\ UNCHANGED <<calls, unified, books, copies, data, tokens>>

\* v_heads_old is indexed by the lane's number, not by its stream
LaneNumber(group, st) == Cardinality({x \in Lanes(group) : x < st})

RestoreOne ==
    /\ batch.phase = "restore" /\ batch.at > 0
    /\ LET e == batch.stack[batch.at] IN
       /\ Rewrite(e.old)
       /\ head' = [st \in Seqs |-> IF st \in Lanes(e.group) THEN e.heads[LaneNumber(e.group, st)]
                                                           ELSE head[st]]
    /\ batch' = [batch EXCEPT !.at = @ - 1]
    /\ UNCHANGED <<calls, unified, hasShift, copies, data, tokens>>

RestoreEnd ==
    /\ batch.phase = "restore" /\ batch.at = 0
    /\ batch' = IF batch.placed THEN [batch EXCEPT !.phase = "run", !.at = 1, !.origin = <<>>]
                                  ELSE NoBatch
    /\ UNCHANGED <<calls, unified, books, copies, data, tokens>>

-----------------------------------------------------------------------------
(***************************************************************************)
(* The micro-batches, one after the other.                                  *)
(***************************************************************************)
RunUbatch ==
    /\ batch.phase = "run"
    /\ LET new == batch.stack[batch.at].new IN
       /\ Rewrite(new)
       /\ head' = HeadBehind(new)
       /\ data' = [st \in Seqs |-> [i \in Idx |->
                     IF i \in DOMAIN new[st] THEN [id |-> new[st][i].id, at |-> new[st][i].pos]
                                              ELSE data[st][i]]]
    /\ batch' = IF batch.at < Len(batch.stack) THEN [batch EXCEPT !.at = @ + 1] ELSE NoBatch
    /\ UNCHANGED <<calls, unified, hasShift, copies, tokens>>

\* the graph fails or is aborted: the positions of the micro-batch are removed, from the
\* first sequence of each token
RunFails ==
    /\ batch.phase = "run"
    /\ LET e    == batch.stack[batch.at]
           left == [st \in Seqs |-> [i \in DOMAIN e.new[st] |->
                                       Less(e.new[st][i], Min(LaneSeqs(e.group, st)))]]
           freed(st) == {i \in DOMAIN left[st] : left[st][i].pos = -1}
       IN
       /\ e.group \in Failing
       /\ Rewrite(left)
       /\ head' = [st \in Seqs |-> IF freed(st) # {} THEN Min(freed(st)) ELSE HeadBehind(e.new)[st]]
    /\ batch' = NoBatch
    /\ UNCHANGED <<calls, unified, hasShift, copies, data, tokens>>

-----------------------------------------------------------------------------
Calls ==
    \/ Clear
    \/ \E p0 \in Bounds : \E p1 \in p0 + 1..MaxPos + 1 : SeqRmAny(p0, p1)
    \/ \E s \in Seqs : SeqKeep(s)
    \/ \E s, d \in Seqs : SeqCpStream(s, d)
    \/ \E s \in Seqs, p0 \in Bounds : \E p1 \in p0 + 1..MaxPos + 1 :
          \/ SeqRm(s, p0, p1)
          \/ \E d \in Seqs : SeqCpShare(s, d, p0, p1)
          \/ \E delta \in Deltas : SeqAdd(s, p0, p1, delta)
          \/ \E by \in Divisors : SeqDiv(s, p0, p1, by)

Decode ==
    \/ DecodeStart \/ CopyStream \/ ApplyShift \/ UpdateEnd
    \/ \E group \in Groups, n \in 1..MaxUbatch : PlaceUbatch(group, n) \/ PlaceFails(group, n)
    \/ PlaceEnd \/ RestoreOne \/ RestoreEnd \/ RunUbatch \/ RunFails

Next == Calls \/ Decode

Spec == Init /\ [][Next]_vars

-----------------------------------------------------------------------------
(***************************************************************************)
(* Properties.                                                              *)
(***************************************************************************)
Cells == [id : Nat, pos : Positions \cup {-1}, shift : Int, seq : SUBSET Seqs, divided : BOOLEAN]

\* Types.
TypeOK ==
    /\ unified \in BOOLEAN
    /\ cells \in [Seqs -> [Idx -> Cells]]
    /\ used \in [Seqs -> SUBSET Idx]
    /\ count \in [Seqs -> [Seqs -> [Positions -> Nat]]]
    /\ hasShift \in [Seqs -> BOOLEAN]
    /\ head \in [Seqs -> 0..Size]
    /\ copies \in Seq(Seqs \X Seqs)
    /\ data \in [Seqs -> [Idx -> [id : Nat, at : Int]]]
    /\ batch.phase \in {"none", "update", "prepare", "restore", "run"}
    /\ tokens \in Nat /\ calls \in Nat

\* The four books agree after any sequence of calls, inside a trial placement too: a cell is
\* used, has a position and has a sequence together or not at all; seq_pos counts exactly
\* the cells, so that the least and greatest position of a sequence, on which callers build
\* the next batch, are true; and a cell that owes a shift has its stream flagged.
BooksExact ==
    \A st \in Seqs :
        /\ used[st] = {i \in Idx : cells[st][i].pos # -1}
        /\ used[st] = {i \in Idx : cells[st][i].seq # {}}
        /\ \A s \in Seqs, p \in Positions :
              count[st][s][p] = Cardinality({i \in Idx : Holds(cells[st][i], s, p)})
        /\ \A i \in Idx : cells[st][i].shift # 0 => hasShift[st]

Rotated(st, i) == data[st][i].at + cells[st][i].shift = cells[st][i].pos

\* Between batches, and whenever a micro-batch is about to be computed, the key in the
\* buffer of a used cell is that of its token, and its rotation and the pending shift make
\* up its position, unless the stream waits to be copied over or the position was divided
\* (pos_div accumulates the shift with the opposite sign of pos_add).
KeysFollow ==
    batch.phase \in {"none", "run"} =>
        \A st \in Seqs : (\A k \in 1..Len(copies) : copies[k][2] # st) =>
            \A i \in used[st] :
                /\ data[st][i].id = cells[st][i].id
                /\ ~cells[st][i].divided => Rotated(st, i)

\* The cache implements the store of llama.h; a batch on trial is not seen.
Visible == IF batch.phase \in {"prepare", "restore"} THEN batch.origin ELSE cells
Content == [st \in Seqs |->
               {[id |-> Visible[st][i].id, pos |-> Visible[st][i].pos, seqs |-> Visible[st][i].seq] :
                   i \in {j \in Idx : Visible[st][j].pos # -1}}]

Store == INSTANCE KvStore WITH content <- Content, Seqs <- Seqs, Positions <- Positions,
                               Deltas <- Deltas, Divisors <- Divisors
ImplementsStore == Store!Spec
=============================================================================
