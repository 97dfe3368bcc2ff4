---------------------------- MODULE ContextWindow ----------------------------
(***************************************************************************)
(* The LLM context of a duplex session in tools/omni/omni.cpp: one KV cache *)
(* that the LLM thread fills by prefills and decodes, and the two windows   *)
(* that shorten it.  kv_cache_slide_window runs before every write and cuts *)
(* at round_start_positions; sliding_window_enforce runs after a prefill and *)
(* drops whole units or turns of unit_history.                              *)
(*                                                                          *)
(* The cache is a sequence of tokens and n_past is its length: removing a   *)
(* range and shifting the positions behind it is what the code's seq_rm and *)
(* seq_add pair does.  A token carries its serial number in the session, the *)
(* turn it was written in and the unit it was written for.                  *)
(***************************************************************************)
EXTENDS Integers, Sequences, SequencesExt

CONSTANTS
    KeepLen,      \* n_keep: the system prompt
    PrefixLen,    \* the tokens eval_prefix adds behind it
    Setups        \* the configurations a session may run with

\* nCtx: params->n_ctx; slideReserve, forceReserve: 2048 and 512, how far from n_ctx a
\* slide is due and is forced; targetKeep: max(n_ctx / 4, 2048); window, high, low:
\* sliding_window_config; step: step_size, content tokens between two </unit>; chunk:
\* max_new_speak_tokens_per_chunk; forceListen: force_listen_count; pieces: lengths of
\* the pieces a prefill evaluates; bound: no prefill or decode begins after so many tokens
Setup == [nCtx : Nat, slideReserve : Nat, forceReserve : Nat, targetKeep : Nat,
          window : {"off", "basic", "turn"}, high : Nat, low : Nat,
          step : Nat \ {0}, chunk : Nat \ {0}, forceListen : Nat,
          pieces : SUBSET (Nat \ {0}), bound : Nat]

ASSUME SetupsAssumption ==
    /\ KeepLen \in Nat /\ PrefixLen \in Nat
    /\ \A s \in Setups : s \in Setup /\ s.low <= s.high

VARIABLES
    setup,       \* octx->params, sliding_window_config and duplex settings
    cache,       \* the KV cache; n_past is its length
    rounds,      \* round_start_positions
    units,       \* unit_history
    turn,        \* current_turn_id
    nextUnit,    \* next_unit_id
    start,       \* pending_unit_start_cache_len, decode_start_cache_len
    phase,       \* where the LLM thread is
    said,        \* current_chunk_tokens
    lastListen,  \* slide_last_was_listen
    endedListen, \* ended_with_listen
    forced,      \* force_listen_used
    written      \* tokens written in the session

book == <<units, turn, nextUnit>>
talk == <<said, lastListen, endedListen, forced>>
vars == <<setup, cache, rounds, book, start, phase, talk, written>>

nPast    == Len(cache)
Preserve == KeepLen + PrefixLen                  \* system_preserve_length
Decoding == phase \in {"forced1", "forced2", "sample", "limit", "step", "close"}

WithoutLate(seq, from, count) ==                           \* variant
    SubSeq(seq, 1, from + 1) \o SubSeq(seq, from + count + 2, Len(seq))

\* seq_rm of the `count` positions after `from`, then seq_add of -count behind them
Without(seq, from, count) ==
    SubSeq(seq, 1, from) \o SubSeq(seq, from + count + 1, Len(seq))

-----------------------------------------------------------------------------
(***************************************************************************)
(* kv_cache_slide_window, duplex branch, before a write of k tokens.        *)
(***************************************************************************)
NeverForced(k) == FALSE                                    \* variant
SlideForced(k) == nPast + k >= setup.nCtx - setup.forceReserve

\* while text is generated, TTS is busy or a speech goes on, only a forced slide runs
SlideDue(k, ttsBusy) ==
    /\ nPast + k >= Max({KeepLen, setup.nCtx - setup.slideReserve})
    /\ Decoding \/ ttsBusy \/ ~lastListen => SlideForced(k)

OldestKept == nPast - setup.targetKeep
TailCut    == OldestKept
RoundCut   ==
    LET n    == Len(rounds)
        cuts == {i \in 1..(n - 1) : rounds[i] >= OldestKept}
    IN rounds[IF cuts = {} THEN n - 1 ELSE Min(cuts)]

KeepFromTail      == Max({KeepLen, TailCut})                             \* variant
KeepFrom == Max({KeepLen, IF Len(rounds) < 2 THEN TailCut ELSE RoundCut})

RoundsUnshifted(from) == SelectSeq(rounds, LAMBDA r : r > from)          \* variant
RoundsBehind(from) ==
    IF Len(rounds) < 2 THEN <<>>
    ELSE LET behind[n \in 0..Len(rounds)] ==                \* of the first n boundaries
                 IF n = 0 THEN <<>>
                 ELSE IF rounds[n] > from
                 THEN Append(behind[n - 1], rounds[n] - (from - KeepLen))
                 ELSE behind[n - 1]
         IN behind[Len(rounds)]

Token(serial) == [serial |-> serial, turn |-> turn, unit |-> nextUnit]

\* eval_tokens, prefill_with_emb: slide, then write k tokens behind n_past
Evaluate(k) ==
    /\ \E ttsBusy \in BOOLEAN :
          LET slides == SlideDue(k, ttsBusy) /\ KeepFrom > KeepLen
              left   == IF slides THEN Without(cache, KeepLen, KeepFrom - KeepLen)
                                  ELSE cache
          IN /\ cache' = left \o [i \in 1..k |-> Token(written + i)]
             /\ rounds' = IF slides THEN RoundsBehind(KeepFrom) ELSE rounds
    /\ written' = written + k

-----------------------------------------------------------------------------
(***************************************************************************)
(* duplex_do_prefill_one: one unit, evaluated in one or more pieces.        *)
(***************************************************************************)
UnitEntry(length) == [id |-> nextUnit, length |-> length, turn |-> turn]

\* sliding_window_register_unit_start
PrefillBegin ==
    /\ phase = "idle"
    /\ written < setup.bound
    /\ phase' = "prefill"
    /\ start' = nPast
    /\ UNCHANGED <<cache, rounds, book, talk, written>>

PrefillPiece ==
    /\ phase \in {"prefill", "more"}
    /\ written < setup.bound
    /\ \E k \in setup.pieces : Evaluate(k)
    /\ phase' = "more"
    /\ UNCHANGED <<book, start, talk>>

\* an entry for what was written since `start`, if anything was
Register ==
    IF setup.window # "off" /\ nPast > start
    THEN units' = Append(units, UnitEntry(nPast - start))
    ELSE units' = units

\* sliding_window_register_unit_end; next_unit_id grows in every case
PrefillEnd ==
    /\ phase = "more"
    /\ Register
    /\ nextUnit' = IF setup.window = "off" THEN nextUnit ELSE nextUnit + 1
    /\ phase' = IF setup.window # "off" /\ nPast > setup.high THEN "enforce" ELSE "filled"
    /\ UNCHANGED <<cache, rounds, turn, start, talk, written>>

-----------------------------------------------------------------------------
(***************************************************************************)
(* sliding_window_enforce: one action is one iteration of its loop.         *)
(***************************************************************************)
Droppable(length) == nPast - Preserve >= length

DropTokens(length) == cache' = Without(cache, Preserve, length)

\* sliding_window_drop_next_turn: the units of the oldest finished turn
FirstUnitOnly == IF units = <<>> THEN <<>> ELSE <<Head(units)>>          \* variant
OldestTurn    ==
    LET others == {i \in DOMAIN units : units[i].turn # Head(units).turn}
    IN SubSeq(units, 1, IF others = {} THEN Len(units) ELSE Min(others) - 1)
TotalLength(entries) ==
    LET total[n \in 0..Len(entries)] ==
            IF n = 0 THEN 0 ELSE total[n - 1] + entries[n].length
    IN total[Len(entries)]

CanDropTurn ==
    /\ setup.window = "turn"
    /\ units # <<>>
    /\ Head(units).turn < turn
    /\ Droppable(TotalLength(OldestTurn))

DropTurn ==
    /\ CanDropTurn
    /\ DropTokens(TotalLength(OldestTurn))
    /\ units' = SubSeq(units, Len(OldestTurn) + 1, Len(units))

\* sliding_window_drop_next_unit: the first unit that fits
NextUnit == SelectInSeq(units, LAMBDA u : Droppable(u.length))
MayDropUnit == ~CanDropTurn

DropUnit ==
    /\ MayDropUnit
    /\ NextUnit # 0
    /\ DropTokens(units[NextUnit].length)
    /\ units' = RemoveAt(units, NextUnit)

EnforceDrop ==
    /\ phase = "enforce"
    /\ nPast > setup.low
    /\ DropTurn \/ DropUnit
    /\ UNCHANGED <<rounds, turn, nextUnit, start, phase, talk, written>>

EnforceEnd ==
    /\ phase = "enforce"
    /\ nPast <= setup.low \/ ~(CanDropTurn \/ (MayDropUnit /\ NextUnit # 0))
    /\ phase' = "filled"
    /\ UNCHANGED <<cache, rounds, book, start, talk, written>>

-----------------------------------------------------------------------------
(***************************************************************************)
(* duplex_do_decode.                                                        *)
(***************************************************************************)
\* a decode follows its prefill; after a break it may find no frame to prefill
DecodeBegin ==
    /\ phase \in {"idle", "filled"}
    /\ phase = "idle" => written < setup.bound
    /\ start' = nPast
    /\ endedListen' = FALSE
    /\ said' = 0
    /\ IF forced < setup.forceListen
       THEN forced' = forced + 1 /\ phase' = "forced1"
       ELSE forced' = forced     /\ phase' = "sample"
    /\ UNCHANGED <<cache, rounds, book, lastListen, written>>

\* break_event in phase 2: the request is refused
DecodeRefused ==
    /\ phase = "filled"
    /\ phase' = "idle"
    /\ UNCHANGED <<cache, rounds, book, start, talk, written>>

\* force_listen: <|listen|> and </unit>, then return before the bookkeeping
ForcedListen ==
    /\ phase = "forced1"
    /\ Evaluate(1)
    /\ phase' = "forced2"
    /\ UNCHANGED <<book, start, talk>>

ForcedUnitEnd ==
    /\ phase = "forced2"
    /\ Evaluate(1)
    /\ lastListen' = TRUE /\ endedListen' = TRUE
    /\ phase' = "idle"
    /\ UNCHANGED <<book, start, said, forced>>

AfterToken(count) ==
    IF count >= setup.chunk THEN "limit" ELSE IF count % setup.step = 0 THEN "step" ELSE "sample"

\* a token that speech does not use is written and not counted
SampleContent ==
    /\ phase = "sample"
    /\ Evaluate(1)
    /\ \/ said' = said + 1 /\ phase' = AfterToken(said + 1)
       \/ written < setup.bound /\ UNCHANGED <<said, phase>>
    /\ UNCHANGED <<book, start, lastListen, endedListen, forced>>

\* an end token: <|listen|>, or one that ends the speech of this chunk
SampleEnd ==
    /\ phase = "sample"
    /\ Evaluate(1)
    /\ \E listen \in BOOLEAN : lastListen' = listen /\ endedListen' = listen
    /\ phase' = "close"
    /\ UNCHANGED <<book, start, said, forced>>

\* break_event: seen before a step it skips the </unit>, inside a step it does not
SampleBreak ==
    /\ phase = "sample"
    /\ phase' = "close" \/ (said % setup.step = 0 /\ phase' = "wrap")
    /\ UNCHANGED <<cache, rounds, book, start, talk, written>>

\* <|chunk_eos|> at the chunk's token limit
ChunkEos ==
    /\ phase = "limit"
    /\ Evaluate(1)
    /\ phase' = "close"
    /\ UNCHANGED <<book, start, talk>>

UnitEnd ==
    /\ phase \in {"step", "close"}
    /\ Evaluate(1)
    /\ phase' = IF phase = "step" THEN "sample" ELSE "wrap"
    /\ UNCHANGED <<book, start, talk>>

\* the response's unit, and the round boundary when the model listens again
NoEntry == units' = units                                  \* variant
ResponseEntry == Register

DecodeEnd ==
    /\ phase = "wrap"
    /\ ResponseEntry
    /\ nextUnit' = nextUnit + (IF units' = units THEN 0 ELSE 1)
    /\ IF endedListen
       THEN rounds' = Append(rounds, nPast) /\ turn' = turn + 1
       ELSE UNCHANGED <<rounds, turn>>
    /\ phase' = "idle"
    /\ UNCHANGED <<cache, start, talk, written>>

-----------------------------------------------------------------------------
\* after stream_prefill(index = 0): the system prompt and the duplex prefix
Init ==
    /\ setup \in Setups
    /\ cache = [i \in 1..Preserve |-> [serial |-> i, turn |-> -1, unit |-> -1]]
    /\ written = Preserve
    /\ rounds = <<>> /\ units = <<>> /\ turn = 0 /\ nextUnit = 0 /\ start = 0
    /\ phase = "idle" /\ said = 0 /\ forced = 0
    /\ lastListen = TRUE /\ endedListen = FALSE

Prefill == PrefillBegin \/ PrefillPiece \/ PrefillEnd
Enforce == EnforceDrop \/ EnforceEnd
Decode  == \/ DecodeBegin \/ DecodeRefused \/ ForcedListen \/ ForcedUnitEnd
           \/ SampleContent \/ SampleEnd \/ SampleBreak \/ ChunkEos \/ UnitEnd \/ DecodeEnd

Next == (Prefill \/ Enforce \/ Decode) /\ UNCHANGED setup

Spec == Init /\ [][Next]_vars

-----------------------------------------------------------------------------
(***************************************************************************)
(* Properties.                                                              *)
(***************************************************************************)
Tokens == [serial : Nat, turn : Nat \cup {-1}, unit : Nat \cup {-1}]

\* Every variable keeps the type of the field it stands for.
TypeOK ==
    /\ setup \in Setups
    /\ cache \in Seq(Tokens) /\ written \in Nat
    /\ rounds \in Seq(Nat)
    /\ units \in Seq([id : Nat, length : Nat \ {0}, turn : Nat])
    /\ turn \in Nat /\ nextUnit \in Nat /\ start \in Nat
    /\ phase \in {"idle", "prefill", "more", "enforce", "filled", "forced1",
                  "forced2", "sample", "limit", "step", "close", "wrap"}
    /\ said \in 0..setup.chunk /\ forced \in 0..setup.forceListen
    /\ lastListen \in BOOLEAN /\ endedListen \in BOOLEAN

\* What no window may touch: n_keep when only slides run, else system_preserve_length.
Protected == IF setup.window = "off" THEN KeepLen ELSE Preserve

\* The cache is the system prompt and then the newest tokens of the session, without a
\* gap: no window ever removes a token younger than one it keeps.
CacheIsRecent ==
    LET recent == nPast - Protected IN
    /\ nPast >= Protected
    /\ \A i \in 1..Protected : cache[i].serial = i
    /\ \A i \in 1..recent : cache[Protected + i].serial = written - recent + i

\* When only slides run, every recorded boundary lies inside the cache, exactly where a
\* round ended.
BoundariesExact == setup.window = "off" =>
    \A i \in 1..Len(rounds) :
        /\ KeepLen < rounds[i] /\ rounds[i] <= nPast
        /\ i > 1 => rounds[i - 1] < rounds[i]
        /\ cache[rounds[i]].turn < turn
        /\ rounds[i] < nPast => cache[rounds[i]].turn < cache[rounds[i] + 1].turn

\* A slide that is deferred while the model speaks still comes in time: the cache never
\* holds more than n_ctx tokens.
ContextFits == nPast <= setup.nCtx

\* When only slides run, one that has two boundaries to choose from cuts between rounds:
\* it never keeps a part of a round and drops the rest.
RoundsStayWhole ==
    [][LET gone == nPast + (written' - written) - Len(cache')
       IN setup.window = "off" /\ gone > 0 /\ Len(rounds) >= 2 /\ KeepLen + gone < nPast =>
              cache[KeepLen + gone].turn < cache[KeepLen + gone + 1].turn]_vars

\* With a window on the books balance: when no unit is open, the cache is the protected
\* prefix followed by the units of unit_history, each with as many tokens as its entry says.
Before(i) == Preserve + TotalLength(SubSeq(units, 1, i - 1))
Accounted ==
    setup.window # "off" /\ phase \in {"idle", "enforce", "filled"} =>
        /\ nPast = Preserve + TotalLength(units)
        /\ \A i \in 1..Len(units) : \A j \in 1..units[i].length :
              cache[Before(i) + j].unit = units[i].id

\* In turn mode a drop takes a finished turn as a whole: the question never stays without
\* its answer, nor the answer without its question.
TurnsDropWhole ==
    [][setup.window = "turn" /\ EnforceDrop =>
          LET oldest == cache[Preserve + 1].turn
          IN oldest < turn => \A i \in Preserve + 1..Len(cache') : cache'[i].turn > oldest]_vars
=============================================================================
