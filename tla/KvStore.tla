------------------------------ MODULE KvStore ------------------------------
(***************************************************************************)
(* What llama.h promises of the memory of a context: streams of tokens, each *)
(* with one position and the sequences it belongs to.  Cells, search heads, *)
(* counters and pending shifts are not part of the promise, nor is that a    *)
(* sequence has no gaps, which a caller's removal can make false.           *)
(***************************************************************************)
EXTENDS Integers, FiniteSets

CONSTANTS Seqs, Positions, Deltas, Divisors

VARIABLE content       \* content[st]: the tokens of a stream

Bounds == Positions \cup {p + 1 : p \in Positions}

Init == content = [st \in Seqs |-> {}]

Within(t, s, p0, p1) == s \in t.seqs /\ t.pos >= p0 /\ t.pos < p1

\* the tokens of a stream, each put through Change; those left without a sequence go
Edit(st, Change(_)) ==
    content' = [content EXCEPT ![st] = {u \in {Change(t) : t \in @} : u.seqs # {}}]

Clear == content' = [st \in Seqs |-> {}]

Remove(st, s, p0, p1) ==
    Edit(st, LAMBDA t : IF Within(t, s, p0, p1) THEN [t EXCEPT !.seqs = @ \ {s}] ELSE t)

\* of every sequence in every stream
RemoveAny(p0, p1) ==
    content' = [st \in Seqs |-> {t \in content[st] : ~(t.pos >= p0 /\ t.pos < p1)}]

Keep(st, s) ==
    Edit(st, LAMBDA t : [t EXCEPT !.seqs = @ \cap {s}])

Share(st, s, d, p0, p1) ==
    Edit(st, LAMBDA t : IF Within(t, s, p0, p1) THEN [t EXCEPT !.seqs = @ \cup {d}] ELSE t)

\* a stream becomes a copy of what another holds for sequence s
Duplicate(from, s, to, d) ==
    content' = [content EXCEPT ![to] =
                   {[t EXCEPT !.seqs = {d}] : t \in {u \in content[from] : s \in u.seqs}}]

\* a token has one position: the sequences that share it move with it
Shift(st, s, p0, p1, delta) ==
    Edit(st, LAMBDA t : IF ~Within(t, s, p0, p1) THEN t
                        ELSE IF t.pos + delta < 0 THEN [t EXCEPT !.seqs = {}]
                        ELSE [t EXCEPT !.pos = @ + delta])

Divide(st, s, p0, p1, by) ==
    Edit(st, LAMBDA t : IF Within(t, s, p0, p1) THEN [t EXCEPT !.pos = @ \div by] ELSE t)

\* a micro-batch is computed: in each stream it touches, n tokens behind the last of every
\* sequence they belong to
Behind(st, s, p) == \A t \in content[st] : s \in t.seqs => t.pos < p
Append(n) ==
    \A st \in Seqs :
        LET new == content'[st] \ content[st] IN
        /\ content[st] \subseteq content'[st]
        /\ new # {} =>
              /\ Cardinality(new) = n
              /\ \A t \in new : /\ t.seqs # {}
                                /\ \A s \in t.seqs : Behind(st, s, t.pos)
                                /\ \A u \in new : u.seqs = t.seqs /\ (u # t => u.pos # t.pos)
                                                  /\ u.pos - t.pos < n

\* a call may change nothing that is promised
Next ==
    \/ UNCHANGED content
    \/ Clear
    \/ \E n \in 1..Cardinality(Positions) : Append(n)
    \/ \E st, s \in Seqs : Keep(st, s)
    \/ \E from, s, to, d \in Seqs : Duplicate(from, s, to, d)
    \/ \E p0, p1 \in Bounds :
          /\ p0 < p1
          /\ \/ RemoveAny(p0, p1)
             \/ \E st, s \in Seqs :
                   \/ Remove(st, s, p0, p1)
                   \/ \E d \in Seqs : Share(st, s, d, p0, p1)
                   \/ \E delta \in Deltas : Shift(st, s, p0, p1, delta)
                   \/ \E by \in Divisors : Divide(st, s, p0, p1, by)

Spec == Init /\ [][Next]_content
=============================================================================
