------------------------------- MODULE Tokenizer -------------------------------
(***************************************************************************)
(* text/tokenizer.cpp.  Encoding cuts a text at its added tokens, cuts the *)
(* rest at three hand-compiled regular expressions and merges the bytes of *)
(* every piece; decoding a stream holds back the bytes of an unfinished    *)
(* code point.  The encoder's parts are operators compared with what they  *)
(* stand for (the regular expressions, the merge rule, leftmost-longest    *)
(* matching) over small inputs; the stream decoder is a state machine.     *)
(*                                                                         *)
(* A token is the sequence of its bytes.  A character is a letter standing *)
(* for its class: see Has.                                                 *)
(***************************************************************************)
EXTENDS Integers, Sequences, FiniteSets, FiniteSetsExt

CONSTANTS Docs,           \* tokenizer files: [vocab |-> tokens, merges |-> seq of pairs]
          Words,          \* byte sequences to merge
          Chars, MaxText, \* characters, and the longest text cut into pieces
          AddedTokens,    \* pairs <<raw, normalized>> of sets of added tokens
          AddedTexts,     \* texts cut at them
          Pushes,         \* byte sequences of the tokens a stream is made of
          MaxRaw          \* bytes of a stream

VARIABLES job,            \* what is being computed
          raw,            \* the bytes of the tokens pushed so far
          pending, out    \* StreamDecoder::pending_, and the text returned so far

tokVars == <<job, raw, pending, out>>

-----------------------------------------------------------------------------
(* UTF-8.                                                                    *)
Lead(b) ==
    CASE b < 128 -> <<1, 0, 0>>
      [] b \in 194..223 -> <<2, 128, 191>>
      [] b = 224 -> <<3, 160, 191>>
      [] b = 237 -> <<3, 128, 159>>
      [] b \in 225..239 \ {237} -> <<3, 128, 191>>
      [] b = 240 -> <<4, 144, 191>>
      [] b \in 241..243 -> <<4, 128, 191>>
      [] b = 244 -> <<4, 128, 143>>
      [] OTHER -> <<0, 0, 0>>

\* One code point at s[i]: its bytes, or the maximal valid subpart of it.
utf8_next(s, i) ==
    LET lead == Lead(s[i])
        n == lead[1]
        low(k) == IF k = 1 THEN lead[2] ELSE 128
        high(k) == IF k = 1 THEN lead[3] ELSE 191
        stop == {k \in 1..n - 1 : i + k > Len(s) \/ s[i + k] < low(k) \/ s[i + k] > high(k)}
    IN  IF n = 0 THEN [r |-> "invalid", len |-> 1]
        ELSE IF stop = {} THEN [r |-> "ok", len |-> n]
        ELSE [r |-> IF i + Min(stop) > Len(s) THEN "incomplete" ELSE "invalid", len |-> Min(stop)]

Replacement == <<239, 191, 189>>

\* utf8_lossy from s[i] on: the text, and how many bytes are held back.
HeldPartial(s, i, u) == u.len - 1
Held(s, i, u) == Len(s) - i + 1
RECURSIVE Lossy(_, _, _, _)
Lossy(s, i, hold, acc) ==
    IF i > Len(s) THEN [text |-> acc, held |-> 0]
    ELSE LET u == utf8_next(s, i)
         IN  CASE u.r = "ok" -> Lossy(s, i + u.len, hold, acc \o SubSeq(s, i, i + u.len - 1))
               [] u.r = "incomplete" /\ hold -> [text |-> acc, held |-> Held(s, i, u)]
               [] OTHER -> Lossy(s, i + u.len, hold, acc \o Replacement)
utf8_lossy(s, hold) == Lossy(s, 1, hold, <<>>)

-----------------------------------------------------------------------------
(* Loading: every byte is a token, a merge names tokens and makes one, and   *)
(* of two merges of one pair the first counts.                               *)
Pair(m) == m[1] \o m[2]
Accepted(doc, bytes) ==
    /\ \A b \in bytes : <<b>> \in doc.vocab
    /\ \A i \in DOMAIN doc.merges :
          /\ doc.merges[i][1] \in doc.vocab /\ doc.merges[i][2] \in doc.vocab
          /\ Pair(doc.merges[i]) \in doc.vocab
Rank(doc, a, b) == {i \in DOMAIN doc.merges : doc.merges[i] = <<a, b>>}
Merges(doc, a, b) == Rank(doc, a, b) # {}

(* bpe: symbols in a doubly linked list (0 is no neighbour) and a heap of    *)
(* candidate merges, of which an entry may be stale when it is popped.       *)
Entry(doc, sym, p) ==
    LET q == sym[p].next
    IN  IF q # 0 /\ Merges(doc, sym[p].c, sym[q].c)
        THEN {<<Min(Rank(doc, sym[p].c, sym[q].c)), p, sym[p].c \o sym[q].c>>} ELSE {}
Top(heap) == CHOOSE e \in heap : \A f \in heap : e[1] < f[1] \/ (e[1] = f[1] /\ e[2] <= f[2])
RECURSIVE MergeAll(_, _, _)
MergeAll(doc, sym, heap) ==
    IF heap = {} THEN sym
    ELSE LET e == Top(heap)
             p == e[2]
             q == sym[p].next
             rest == heap \ {e}
         IN  IF \/ sym[p].len = 0 \/ q = 0
                \/ ~Merges(doc, sym[p].c, sym[q].c) \/ sym[p].c \o sym[q].c # e[3]
             THEN MergeAll(doc, sym, rest)
             ELSE LET right == sym[q]
                      new == [i \in DOMAIN sym |->
                                CASE i = p -> [c |-> e[3], prev |-> sym[p].prev, next |-> right.next,
                                               len |-> sym[p].len + right.len]
                                  [] i = q -> [right EXCEPT !.len = 0]
                                  [] i = right.next -> [sym[i] EXCEPT !.prev = p]
                                  [] OTHER -> sym[i]]
                      before == IF new[p].prev # 0 THEN Entry(doc, new, new[p].prev) ELSE {}
                  IN  MergeAll(doc, new, rest \cup before \cup Entry(doc, new, p))

Symbols(word) ==
    [i \in DOMAIN word |-> [c |-> <<word[i]>>, prev |-> i - 1,
                            next |-> IF i < Len(word) THEN i + 1 ELSE 0, len |-> 1]]
bpe(doc, word) ==
    LET sym == Symbols(word)
        end == MergeAll(doc, sym, UNION {Entry(doc, sym, i) : i \in DOMAIN word})
        left == SelectSeq(end, LAMBDA s : s.len # 0)
    IN  [i \in DOMAIN left |-> left[i].c]

\* The merge rule: the pair of the least rank, the leftmost of them, until none.
RECURSIVE MergeRule(_, _)
MergeRule(doc, toks) ==
    LET at == {i \in 1..Len(toks) - 1 : Merges(doc, toks[i], toks[i + 1])}
        rank(i) == Min(Rank(doc, toks[i], toks[i + 1]))
        i == CHOOSE j \in at : \A k \in at : rank(j) < rank(k) \/ (rank(j) = rank(k) /\ j <= k)
    IN  IF at = {} THEN toks
        ELSE MergeRule(doc, SubSeq(toks, 1, i - 1) \o <<toks[i] \o toks[i + 1]>>
                            \o SubSeq(toks, i + 2, Len(toks)))

-----------------------------------------------------------------------------
(* The pre-tokenizer.  Characters: 1 digit, a ASCII letter, z other letter,  *)
(* k CJK letter, m mark, ! ASCII punctuation, s other symbol, _ space,       *)
(* t other white space, n line end, x none of these.                         *)
Digit == {"1"}
CJK == {"k"}
Alpha == {"a"}
Letter == {"a", "z", "k"}
Mark == {"m"}
AsciiPunct == {"!"}
Punct == {"!", "s"}                    \* P and S
Crlf == {"n"}
White == {"_", "t", "n"}

\* The first place from i on, before e, whose character is not in S.
Past(s, i, e, S) == Min({j \in i..e : j = e \/ s[j] \notin S})

MatchDigits(s, i, e) == Past(s, i, Min({e, i + 3}), Digit) - i
MatchCJK(s, i, e) == Past(s, i, e, CJK) - i

\* A4 to A6, with the white space from i to j.
Space(s, i, e, j) == IF j = e THEN j - i ELSE IF j - i >= 2 THEN j - 1 - i ELSE j - i
MatchWord(s, i, e) ==
    LET a1 == s[i] \in AsciiPunct /\ i + 1 < e /\ s[i + 1] \in Alpha
        a2 == IF s[i] \notin Crlf \cup Letter \cup Punct /\ i + 1 < e /\ s[i + 1] \in Letter \cup Mark
              THEN i + 1 ELSE i
        a3 == IF s[i] = "_" /\ i + 1 < e /\ s[i + 1] \in Punct THEN i + 1 ELSE i
        j == Past(s, i, e, White)
        ends == {k \in i..j - 1 : s[k] \in Crlf}
    IN  IF a1 THEN Past(s, i + 1, e, Alpha) - i
        ELSE IF s[a2] \in Letter \cup Mark THEN Past(s, a2, e, Letter \cup Mark) - i
        ELSE IF s[a3] \in Punct THEN Past(s, Past(s, a3, e, Punct), e, Crlf) - i
        ELSE IF s[i] \notin White THEN 0
        ELSE IF ends # {} THEN Max(ends) + 1 - i
        ELSE Space(s, i, e, j)

\* Regular expressions: a sequence of items tried greedily with backtracking.
\* The end of the match, or 0.  An item with lo = -1 is the lookahead (?!\S).
Item(S, lo, hi) == [in |-> S, lo |-> lo, hi |-> hi]
RECURSIVE Eat(_, _, _, _), Try(_, _, _, _, _)
Try(s, items, i, e, k) ==
    IF k < items[1].lo THEN 0
    ELSE LET r == Eat(s, Tail(items), i + k, e)
         IN  IF r # 0 THEN r ELSE Try(s, items, i, e, k - 1)
Eat(s, items, i, e) ==
    IF items = <<>> THEN i
    ELSE IF items[1].lo = -1 THEN IF i = e \/ s[i] \in White THEN Eat(s, Tail(items), i, e) ELSE 0
    ELSE Try(s, items, i, e, Past(s, i, Min({e, i + items[1].hi}), items[1].in) - i)

Word == <<<<Item(AsciiPunct, 1, 1), Item(Alpha, 1, 99)>>,
          <<Item(Chars \ (Crlf \cup Letter \cup Punct), 0, 1), Item(Letter \cup Mark, 1, 99)>>,
          <<Item({"_"}, 0, 1), Item(Punct, 1, 99), Item(Crlf, 0, 99)>>,
          <<Item(White, 0, 99), Item(Crlf, 1, 99)>>,
          <<Item(White, 1, 99), Item({}, -1, 0)>>,
          <<Item(White, 1, 99)>>>>
\* Leftmost-first alternation: the length of the first alternative that matches.
Regex(alts, s, i, e) ==
    LET hit == {a \in DOMAIN alts : Eat(s, alts[a], i, e) # 0}
    IN  IF hit = {} THEN 0 ELSE Eat(s, alts[Min(hit)], i, e) - i

-----------------------------------------------------------------------------
(* Added tokens: leftmost-longest over one set, inside the ordinary segments.*)
Longest(tokens, s, i, e) ==
    LET n == {k \in 1..e - i : SubSeq(s, i, i + k - 1) \in tokens}
    IN  IF n = {} THEN 0 ELSE Max(n)
RECURSIVE Cut(_, _, _, _, _)
Cut(tokens, s, last, i, e) ==
    IF i >= e THEN IF e > last THEN <<<<last, e, FALSE>>>> ELSE <<>>
    ELSE LET n == Longest(tokens, s, i, e)
         IN  IF n = 0 THEN Cut(tokens, s, last, i + 1, e)
             ELSE (IF i > last THEN <<<<last, i, FALSE>>>> ELSE <<>>)
                  \o <<<<i, i + n, TRUE>>>> \o Cut(tokens, s, i + n, i + n, e)
RECURSIVE split_on(_, _, _)
split_on(tokens, s, segs) ==
    IF segs = <<>> THEN <<>>
    ELSE (IF segs[1][3] THEN <<segs[1]>> ELSE Cut(tokens, s, segs[1][1], segs[1][1], segs[1][2]))
         \o split_on(tokens, s, Tail(segs))
Segments(added, s) == split_on(added[2], s, split_on(added[1], s, <<<<1, Len(s) + 1, FALSE>>>>))

-----------------------------------------------------------------------------
Init ==
    /\ raw = <<>> /\ pending = <<>> /\ out = <<>>
    /\ \/ job \in {[kind |-> "bpe", doc |-> d, word |-> w] : d \in Docs, w \in Words}
       \/ job \in {[kind |-> "cut", added |-> a, text |-> t] : a \in AddedTokens, t \in AddedTexts}
       \/ job = [kind |-> "text", text |-> <<>>]
       \/ job = [kind |-> "stream"]

\* The texts, a character at a time.
Longer(c) ==
    /\ job.kind = "text" /\ Len(job.text) < MaxText
    /\ job' = [job EXCEPT !.text = Append(@, c)]
    /\ UNCHANGED <<raw, pending, out>>

\* StreamDecoder::push of a token with these bytes.
Push(bytes) ==
    LET held == pending \o bytes
        l == utf8_lossy(held, TRUE)
    IN  /\ job.kind = "stream" /\ Len(raw) + Len(bytes) <= MaxRaw
        /\ raw' = raw \o bytes
        /\ out' = out \o l.text
        /\ pending' = SubSeq(held, Len(held) - l.held + 1, Len(held))
        /\ UNCHANGED job

Flush ==
    /\ job.kind = "stream" /\ pending # <<>>
    /\ out' = out \o utf8_lossy(pending, FALSE).text
    /\ pending' = <<>>
    /\ job' = [kind |-> "flushed"]
    /\ UNCHANGED raw

Next ==
    \/ \E c \in Chars : Longer(c)
    \/ \E bytes \in Pushes : Push(bytes)
    \/ Flush

Spec == Init /\ [][Next]_tokVars

-----------------------------------------------------------------------------
(* A streamed answer reads like the whole one: however a code point's bytes  *)
(* are spread over tokens, what push has returned followed by what flush     *)
(* would return is the text decoded in one go, and flush is exact after it.  *)
StreamReads == out \o utf8_lossy(pending, FALSE).text = utf8_lossy(raw, FALSE).text

(* The encoder computes what it stands for.  The heap of merges with its     *)
(* stale entries gives the tokens of the merge rule, whose bytes are the     *)
(* word's, even where two merges make the same token; the hand-compiled      *)
(* matcher takes what the regular expression takes at every place of a       *)
(* piece; and the segments cut at added tokens tile the text, with no added  *)
(* token of the first set left in what is encoded as text.                   *)
RECURSIVE Glue(_)
Glue(toks) == IF toks = <<>> THEN <<>> ELSE toks[1] \o Glue(Tail(toks))
EncoderExact ==
    CASE job.kind = "bpe" ->
            Accepted(job.doc, {job.word[i] : i \in DOMAIN job.word}) =>
                /\ bpe(job.doc, job.word) = MergeRule(job.doc, [i \in DOMAIN job.word |-> <<job.word[i]>>])
                /\ Glue(bpe(job.doc, job.word)) = job.word
      [] job.kind = "text" ->
            \A i \in DOMAIN job.text : LET e == Len(job.text) + 1 IN
                /\ MatchWord(job.text, i, e) = Regex(Word, job.text, i, e)
                /\ MatchDigits(job.text, i, e) = Regex(<<<<Item(Digit, 1, 3)>>>>, job.text, i, e)
                /\ MatchCJK(job.text, i, e) = Regex(<<<<Item(CJK, 1, 99)>>>>, job.text, i, e)
      [] job.kind = "cut" ->
            LET segs == Segments(job.added, job.text)
                n == Len(segs)
            IN  /\ job.text # <<>> => segs[1][1] = 1 /\ segs[n][2] = Len(job.text) + 1
                /\ \A i \in 1..n - 1 : segs[i][2] = segs[i + 1][1] /\ (segs[i][3] \/ segs[i + 1][3])
                /\ \A i \in 1..n :
                      LET part == SubSeq(job.text, segs[i][1], segs[i][2] - 1)
                      IN  IF segs[i][3] THEN part \in job.added[1] \cup job.added[2]
                          ELSE \A a, b \in DOMAIN part :
                                  a <= b => SubSeq(part, a, b) \notin job.added[1] \cup job.added[2]
      [] OTHER -> TRUE
=============================================================================
