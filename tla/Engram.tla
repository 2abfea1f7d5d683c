-------------------------------- MODULE Engram --------------------------------
(***************************************************************************)
(* runtime/engram.cpp and runtime/engram_tables.cpp: the rows of a hash     *)
(* table that an engram layer adds to the residual stream.  The tables'     *)
(* constants are derived from the tokenizer; the rows of a token are hashed *)
(* from its last tokens, read ahead into a landing zone per (layer, batch   *)
(* row), and landed (waited for, cached and staged for the device) when the *)
(* layer is recorded.                                                       *)
(*                                                                          *)
(* A code point is a string naming it and a token's text a sequence of      *)
(* them.  The payload of row r of layer L is <<L, r>>, in the value plane   *)
(* and in the scale plane alike.  Reads complete one landing zone at a time *)
(* because nothing looks at a zone before all of its reads are done.        *)
(***************************************************************************)
EXTENDS Integers, Sequences, FiniteSets, FiniteSetsExt, Bitwise

CONSTANTS EngramLayers,       \* cfg.engram_layer_ids, in order
          MaxNgram, Heads,    \* engram_max_ngram_size, engram_n_heads
          Texts,              \* Texts[id + 1]: the text token id decodes to
          Spellings,          \* Spellings[id + 1]: its vocabulary entry, one letter a byte
          PadToken,           \* engram_pad_token_id
          Integers_(_, _),    \* numpy_rng_integers of a layer's seed: the n-th draw
          EngramSettings,     \* [early, scales, vocab], and the bounds [fed, faults]: the
                              \* tokens contexts are made of, the failures
          RowCacheLimit, BatchRows,
          MaxLen, MaxSteps    \* bounds: tokens of a context, steps

VARIABLES eset,     \* the settings of this engine
          history,  \* the stream's tokens, history[i + 1] at position i
          todo,     \* the engram calls left of the running step
          planes,   \* EngramRunner::planes_ and its part of staging_
          reading,  \* reads in flight: [zone, slot, data]
          rowCache, \* row_cache_ in the order of row_fifo_
          buf,      \* the rows staged for the device
          given,    \* the call of record made last in this step
          efaults, esteps

engramVars == <<eset, history, todo, planes, reading, rowCache, buf, given, efaults, esteps>>

-----------------------------------------------------------------------------
(* The token map: tokens whose texts normalise alike share an id.            *)

\* NormMap: lower case, without accents; a ligature is two letters.
NormOf(c) ==
    CASE c = "A" -> <<"a">>
      [] c = "acute" -> <<>>
      [] c = "fi" -> <<"f", "i">>
      [] OTHER -> <<c>>

Blank(c) == c \in {"space", "tab"}
rust_whitespace(c) == c \in {"space", "tab", "ogham"}

RECURSIVE Mapped(_)
Mapped(s) == IF s = <<>> THEN <<>> ELSE NormOf(Head(s)) \o Mapped(Tail(s))

\* Every run of blanks becomes one space.
Collapsed(s) ==
    LET starts == SelectSeq([i \in 1..Len(s) |-> i],
                            LAMBDA i : Blank(s[i]) => i = 1 \/ ~Blank(s[i - 1]))
    IN  [k \in 1..Len(starts) |-> IF Blank(s[starts[k]]) THEN "space" ELSE s[starts[k]]]

Stripped(s) ==
    LET solid == {i \in 1..Len(s) : ~rust_whitespace(s[i])}
    IN  IF solid = {} THEN <<>> ELSE SubSeq(s, Min(solid), Max(solid))

\* A text that is one space stays one: a sentinel stands for it while stripping.
engram_normalize(s) ==
    LET w == Collapsed(Mapped(s))
    IN  IF w = <<"space">> THEN w ELSE Stripped(w)

\* Bytes that are no text are keyed by their vocabulary entry, in the same map of strings.
Textual(id) == "U+FFFD" \notin {Texts[id + 1][i] : i \in 1..Len(Texts[id + 1])}
TokenKey(id) ==
    LET text == Texts[id + 1]
    IN  IF ~Textual(id) THEN Spellings[id + 1]
        ELSE IF engram_normalize(text) = <<>> THEN text
        ELSE engram_normalize(text)

TokenIds == 0..Len(Texts) - 1

\* keys.try_emplace(key, keys.size()): ids in the order of first appearance.
token_map ==
    LET first == {id \in TokenIds : \A e \in 0..id - 1 : TokenKey(e) # TokenKey(id)}
    IN  [id \in TokenIds |-> LET f == CHOOSE e \in first : TokenKey(e) = TokenKey(id)
                          IN  Cardinality({e \in first : e < f})]

-----------------------------------------------------------------------------
(* The moduli: primes drawn in order, never reused.                          *)

Bases == {2, 3, 5, 7, 11, 13, 17, 19, 23, 29, 31, 37}

PowMod(a, e, n) ==
    LET pw[k \in 0..e] == IF k = 0 THEN 1
                          ELSE LET h == pw[k \div 2] IN (((h * h) % n) * (IF k % 2 = 1 THEN a ELSE 1)) % n
    IN  pw[e]

\* Miller and Rabin's test with the bases' trial division before it.
IsPrime(n) ==
    IF n < 2 THEN FALSE
    ELSE IF \E p \in Bases : n % p = 0 THEN n \in Bases
    ELSE LET s == Max({k \in 1..30 : 2^k <= n - 1 /\ (n - 1) % 2^k = 0})
             d == (n - 1) \div 2^s
         IN  \A a \in Bases :
                LET x == PowMod(a, d, n)
                IN  \/ x = 1
                    \/ \E r \in 0..s - 1 : PowMod(x, 2^r, n) = n - 1

RowsPerToken == (MaxNgram - 1) * Heads

RECURSIVE NextUnused(_, _)
NextUnused(c, seen) == IF IsPrime(c) /\ c \notin seen THEN c ELSE NextUnused(c + 1, seen)

\* The columns of all the layers in order; `current` starts over with every n-gram order.
RECURSIVE Drawn(_, _, _)
Drawn(n, vocab, acc) ==
    IF n = 0 THEN acc
    ELSE LET k == Len(acc)
             from == IF k % Heads = 0 THEN vocab ELSE acc[k] + 1
             seen == {acc[i] : i \in 1..k}
         IN  Drawn(n - 1, vocab, Append(acc, NextUnused(from, seen)))

\* A layer's tables: multipliers, primes and the offsets of their blocks.
LayerTable(vocab, li) ==
    LET all == Drawn(RowsPerToken * Len(EngramLayers), vocab, <<>>)
        primes == SubSeq(all, (li - 1) * RowsPerToken + 1, li * RowsPerToken)
        off[c \in 1..RowsPerToken + 1] == IF c = 1 THEN 0 ELSE off[c - 1] + primes[c - 1]
    IN  [multipliers |-> [i \in 0..MaxNgram - 1 |-> Integers_(EngramLayers[li], i) * 2 + 1],
         primes |-> primes, offsets |-> [c \in 1..RowsPerToken |-> off[c]],
         num_embeddings |-> off[RowsPerToken + 1]]

Tables == [v \in {s.vocab : s \in EngramSettings} |-> [li \in 1..Len(EngramLayers) |-> LayerTable(v, li)]]

pad_id == token_map[PadToken]

\* hash_rows: the running XOR after i look-backs is the hash of the (i + 1)-gram.
hash_rows(li, sofar, pos) ==
    LET t == Tables[eset.vocab][li]
        compressed(shift) == IF pos < shift THEN pad_id ELSE token_map[sofar[pos - shift + 1]]
        rolling[i \in 0..MaxNgram - 1] ==
            LET prod == compressed(i) * t.multipliers[i]
            IN  IF i = 0 THEN prod ELSE rolling[i - 1] ^^ prod
    IN  [c \in 1..RowsPerToken |->
            (rolling[((c - 1) \div Heads) + 1] % t.primes[c]) + t.offsets[c]]

-----------------------------------------------------------------------------
(* A landing zone.                                                           *)

None == -1
Zones == (1..Len(EngramLayers)) \X (0..BatchRows - 1)
Blanked == <<0, 0>>
Slots == 1..2 * RowsPerToken
Col(i) == (i + 1) \div 2

ZoneInit == [fetched_position |-> None, rows |-> [c \in 1..RowsPerToken |-> None],
             pending |-> <<>>, staging |-> [i \in Slots |-> Blanked]]

\* The futures of a zone are waited for before it is used again.
Drained(z) == \A r \in reading : r.zone # z
fetched(z, pos) == planes[z].fetched_position = pos

\* Rows both of whose reads were issued; the others of a fetch cut short are not cached.
CompletedRowsAll(zone) == RowsPerToken
CompletedRows(zone) == Len(zone.pending) \div 2

\* row_cache_ and row_fifo_ after the completed rows of a zone.
RECURSIVE WithRows(_, _, _, _)
WithRows(cache, z, zone, c) ==
    IF c > CompletedRows(zone) THEN cache
    ELSE LET key == <<z[1], zone.rows[c]>>
             entry == [key |-> key, val |-> zone.staging[2 * c - 1], sc |-> zone.staging[2 * c]]
             room == IF Len(cache) = RowCacheLimit THEN Tail(cache) ELSE cache
         IN  WithRows(IF \E i \in 1..Len(cache) : cache[i].key = key THEN cache
                      ELSE Append(room, entry), z, zone, c + 1)

LandFails(z) == \E i \in 1..Len(planes[z].pending) : planes[z].pending[i] = "bad"

\* land: what it leaves of the zone, of the cache and of the staged rows.  What the
\* landing zone held is not looked at again and is left out of the state.
Landed(z) ==
    LET zone == planes[z]
        left == [ZoneInit EXCEPT !.fetched_position = zone.fetched_position]
        row(c) == [val |-> IF 2 * c - 1 <= Len(zone.pending) THEN zone.staging[2 * c - 1] ELSE Blanked,
                   sc |-> IF 2 * c <= Len(zone.pending) THEN zone.staging[2 * c] ELSE Blanked]
    IN  IF zone.pending = <<>> THEN [zone |-> zone, cache |-> rowCache, staged |-> buf[z]]
        ELSE IF LandFails(z)
        THEN [zone |-> ZoneInit,
              cache |-> rowCache, staged |-> buf[z]]
        ELSE [zone |-> left,
              cache |-> WithRows(rowCache, z, zone, 1),
              staged |-> [c \in 1..RowsPerToken |-> row(c)]]

\* What a slot of a fetch is: a copy of a cached row or of a resident scale, or a read.
CopyOf(cache, z, rows, i) ==
    LET key == <<z[1], rows[Col(i)]>>
        hits == {k \in 1..Len(cache) : cache[k].key = key}
    IN  IF hits # {} THEN (LET e == cache[Min(hits)] IN IF i % 2 = 1 THEN <<e.val>> ELSE <<e.sc>>)
        ELSE IF i % 2 = 0 /\ eset.scales THEN <<key>>
        ELSE <<>>

EngramInit ==
    /\ eset \in EngramSettings
    /\ history = <<>> /\ todo = <<>> /\ reading = {} /\ rowCache = <<>> /\ efaults = 0 /\ esteps = 0
    /\ planes = [z \in Zones |-> ZoneInit]
    /\ buf = [z \in Zones |-> [c \in 1..RowsPerToken |-> [val |-> Blanked, sc |-> Blanked]]]
    /\ given = {}

-----------------------------------------------------------------------------
(* The calls of a step.                                                      *)

Op == Head(todo)
Zone(op) == <<op.li, op.row>>
Done == todo' = Tail(todo)
Gives == todo' = <<>>

Busy(name) == todo # <<>> /\ Op.op = name /\ Drained(Zone(Op))

\* The part of fetch after its landing: issues the slots up to `upto`.
Issued(z, land, rows, upto) ==
    LET copy(i) == CopyOf(land.cache, z, rows, i)
        whole == upto = 2 * RowsPerToken
    IN  /\ planes' = [planes EXCEPT ![z] =
              [fetched_position |-> IF whole THEN Op.pos ELSE None,
               rows |-> [c \in 1..RowsPerToken |->
                            IF c <= Col(upto + 1) THEN rows[c] ELSE land.zone.rows[c]],
               pending |-> [i \in 1..upto |-> IF copy(i) # <<>> THEN "none" ELSE "read"],
               staging |-> [i \in Slots |-> IF i <= upto /\ copy(i) # <<>> THEN copy(i)[1]
                                            ELSE land.zone.staging[i]]]]
        /\ reading' = reading \union
              {[zone |-> z, slot |-> i, data |-> <<z[1], rows[Col(i)]>>] : i \in {j \in 1..upto : copy(j) = <<>>}}

\* fetch, to its end, or to the read whose shard is missing or whose submission is refused.
FetchRows(z, rows, upto) ==
    LET land == Landed(z)
    IN  /\ Issued(z, land, rows, upto)
        /\ rowCache' = land.cache
        /\ buf' = [buf EXCEPT ![z] = land.staged]

\* A fetch that first lands what an earlier step left and finds a failed read there.
FetchStale ==
    LET z == Zone(Op)
    IN  /\ \/ Busy("fetch")
           \/ Busy("need") /\ ~fetched(Zone(Op), Op.pos)
        /\ LandFails(z)
        /\ planes' = [planes EXCEPT ![z] = Landed(z).zone]
        /\ Gives
        /\ UNCHANGED <<eset, history, reading, rowCache, buf, given, efaults, esteps>>

Fetch ==
    LET z == Zone(Op)
        rows == hash_rows(Op.li, history, Op.pos)
    IN  /\ \/ Busy("fetch")
           \/ Busy("need") /\ ~fetched(Zone(Op), Op.pos)
        /\ ~LandFails(z)
        /\ \/ /\ FetchRows(z, rows, 2 * RowsPerToken)
              /\ Done
              /\ UNCHANGED efaults
           \/ \E upto \in 0..2 * RowsPerToken - 1 :
                /\ efaults < eset.faults
                /\ CopyOf(Landed(z).cache, z, rows, upto + 1) = <<>>
                /\ FetchRows(z, rows, upto)
                /\ Gives
                /\ efaults' = efaults + 1
        /\ UNCHANGED <<eset, history, given, esteps>>

\* run_layer's and run_layer_batch's look at rows fetched ahead.
FetchedAhead ==
    LET z == Zone(Op)
    IN  /\ todo # <<>> /\ Op.op \in {"need", "have"}
        /\ \/ fetched(z, Op.pos) /\ Done
           \/ ~fetched(z, Op.pos) /\ Op.op = "have" /\ Gives
        /\ UNCHANGED <<eset, history, planes, reading, rowCache, buf, given, efaults, esteps>>

\* record: the rows are landed and the dispatches that read them recorded.
Record ==
    LET z == Zone(Op)
    IN  /\ Busy("record")
        /\ IF planes[z].fetched_position = None THEN Gives /\ UNCHANGED <<planes, rowCache, buf, given>>
           ELSE /\ planes' = [planes EXCEPT ![z] = Landed(z).zone]
                /\ rowCache' = Landed(z).cache
                /\ buf' = [buf EXCEPT ![z] = Landed(z).staged]
                /\ IF LandFails(z) THEN Gives /\ UNCHANGED given
                   ELSE Done /\ given' = {Op}
        /\ UNCHANGED <<eset, history, reading, efaults, esteps>>

\* The reads of a zone complete, all well or one of them not.
ReadsComplete(z) ==
    LET mine == {r \in reading : r.zone = z}
    IN  /\ mine # {}
        /\ reading' = reading \ mine
        /\ \E bad \in {{}} \union {{r} : r \in mine} :
              /\ Cardinality(bad) + efaults <= eset.faults
              /\ efaults' = efaults + Cardinality(bad)
              /\ planes' = [planes EXCEPT
                    ![z].staging = [i \in Slots |->
                        IF \E r \in mine : r.slot = i
                        THEN (LET r == CHOOSE x \in mine : x.slot = i
                              IN  IF r \in bad THEN Blanked ELSE r.data)
                        ELSE planes[z].staging[i]],
                    ![z].pending = [i \in 1..Len(planes[z].pending) |->
                        IF \E r \in bad : r.slot = i THEN "bad" ELSE planes[z].pending[i]]]
        /\ UNCHANGED <<eset, history, todo, rowCache, buf, given, esteps>>

-----------------------------------------------------------------------------
(* Steps.                                                                    *)

RECURSIVE Flat(_)
Flat(ss) == IF ss = <<>> THEN <<>> ELSE Head(ss) \o Flat(Tail(ss))

Call(op, li, pos, row) == [op |-> op, li |-> li, pos |-> pos, row |-> row]
PerLayer(ops(_)) == Flat([li \in 1..Len(EngramLayers) |-> ops(li)])
PerRow(m, ops(_)) == Flat([k \in 1..m |-> ops(k - 1)])

\* history_ resized to hold the tokens from position p on, and set there.
WithTokens(p, toks) ==
    [i \in 1..Max({Len(history), p + Len(toks)}) |->
        IF i > p /\ i <= p + Len(toks) THEN toks[i - p] ELSE history[i]]

NextPositions == {p \in {Len(history) - 1, Len(history)} : p >= 0 /\ p < MaxLen}

\* One token: the rows go out behind the first buffer and are used when a layer is reached.
StepToken ==
    /\ todo = <<>> /\ esteps < MaxSteps
    /\ esteps' = esteps + 1
    /\ \E p \in NextPositions, t \in eset.fed :
        /\ history' = WithTokens(p, <<t>>)
        /\ todo' = PerLayer(LAMBDA li : <<Call("fetch", li, p, 0)>>)
                   \o PerLayer(LAMBDA li : <<Call("need", li, p, 0), Call("record", li, p, 0)>>)
    /\ given' = {}
    /\ UNCHANGED <<eset, planes, reading, rowCache, buf, efaults>>

\* A verification pass of m rows, its rows fetched ahead into zones of their own or one by one.
StepBatch ==
    /\ todo = <<>> /\ esteps < MaxSteps
    /\ esteps' = esteps + 1
    /\ \E p \in NextPositions : \E toks \in [1..BatchRows -> eset.fed] :
        /\ p + BatchRows <= MaxLen
        /\ history' = WithTokens(p, toks)
        /\ todo' = IF eset.early
                   THEN PerLayer(LAMBDA li : PerRow(BatchRows, LAMBDA m : <<Call("fetch", li, p + m, m)>>))
                        \o PerLayer(LAMBDA li : PerRow(BatchRows, LAMBDA m :
                               <<Call("have", li, p + m, m), Call("record", li, p + m, m)>>))
                   ELSE PerLayer(LAMBDA li : PerRow(BatchRows, LAMBDA m :
                               <<Call("fetch", li, p + m, 0), Call("record", li, p + m, 0)>>))
    /\ given' = {}
    /\ UNCHANGED <<eset, planes, reading, rowCache, buf, efaults>>

\* Between steps: rejected drafts leave the history, and a context is reset.
Truncate ==
    /\ todo = <<>> /\ history # <<>>
    /\ \E n \in {0, Len(history) - 1} : history' = SubSeq(history, 1, n)
    /\ given' = {}
    /\ UNCHANGED <<eset, todo, planes, reading, rowCache, buf, efaults, esteps>>

EngramNext ==
    \/ Fetch \/ FetchStale \/ FetchedAhead \/ Record
    \/ \E z \in Zones : ReadsComplete(z)
    \/ StepToken \/ StepBatch \/ Truncate

EngramSpec == EngramInit /\ [][EngramNext]_engramVars

-----------------------------------------------------------------------------
(* What an n-gram order's row is: a hash of the last tokens' ids, padded in  *)
(* front of the context, in the block of its column.                         *)
Gram(pos, n) == [i \in 0..n - 1 |-> IF i > pos THEN pad_id ELSE token_map[history[pos - i + 1]]]

RowOf(li, pos, c) ==
    LET t == Tables[eset.vocab][li]
        n == ((c - 1) \div Heads) + 2
        x[i \in 0..n - 1] == LET w == Gram(pos, n)[i] * t.multipliers[i]
                             IN  IF i = 0 THEN w ELSE x[i - 1] ^^ w
    IN  (x[n - 1] % t.primes[c]) + t.offsets[c]

(* The rows staged for the device when a layer is recorded are the rows of   *)
(* that layer for the tokens now in the context, whatever earlier steps      *)
(* failed, left in flight or cached (EngramRunner::fetch, land and record);  *)
(* and the cache holds, once each and within its limit, the payloads of the  *)
(* rows it names ("never cache an unissued value/scale pair").               *)
EngramRowsExact ==
    /\ \A g \in given, c \in 1..RowsPerToken :
          LET row == <<g.li, RowOf(g.li, g.pos, c)>>
          IN  buf[Zone(g)][c] = [val |-> row, sc |-> row]
    /\ Len(rowCache) <= RowCacheLimit
    /\ \A i \in 1..Len(rowCache) :
          /\ rowCache[i].val = rowCache[i].key /\ rowCache[i].sc = rowCache[i].key
          /\ \A j \in 1..i - 1 : rowCache[j].key # rowCache[i].key

Prime(n) == n >= 2 /\ \A d \in 2..n - 1 : d * d > n \/ n % d # 0

(* The derived tables are those of the reference: the columns of the layers  *)
(* take, in order, the next primes from engram_vocab_size on; the blocks of  *)
(* two columns of a layer do not meet and fill its table; two tokens share a *)
(* compressed id exactly when their keys agree, be they normalised texts (a  *)
(* lone space is kept, "^ $") or spellings of bytes; ids are dense.          *)
EngramTablesSound ==
    esteps = 0 =>
        /\ \A li \in 1..Len(EngramLayers), c \in 1..RowsPerToken :
              LET p == Tables[eset.vocab][li].primes[c]
              IN  /\ Prime(p)
                  /\ Cardinality({q \in eset.vocab..p : Prime(q)}) = (li - 1) * RowsPerToken + c
        /\ \A li \in 1..Len(EngramLayers) : \A r \in 0..Tables[eset.vocab][li].num_embeddings - 1 :
              LET t == Tables[eset.vocab][li]
              IN  Cardinality({c \in 1..RowsPerToken : r \in t.offsets[c]..t.offsets[c] + t.primes[c] - 1}) = 1
        /\ {token_map[id] : id \in TokenIds} = 0..Cardinality({TokenKey(id) : id \in TokenIds}) - 1
        /\ \A a, b \in TokenIds :
              (token_map[a] = token_map[b]) <=> (TokenKey(a) = TokenKey(b))
        /\ \A id \in TokenIds : \A i \in {1, Len(TokenKey(id))} :
              Textual(id) /\ TokenKey(id) # <<"space">> /\ engram_normalize(Texts[id + 1]) # <<>>
                  => ~rust_whitespace(TokenKey(id)[i])
================================================================================
