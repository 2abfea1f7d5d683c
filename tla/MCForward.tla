----------------------------- MODULE MCForward ------------------------------
(* What surrounds a forward pass and works on its own: speculative cycles,   *)
(* resident-only routing, tokenizer, engram rows, the requests that change   *)
(* how serve decodes, and the sampling laws.  A behaviour is one of one      *)
(* part, which `component` names; a variable that two parts have is shared,  *)
(* and the variables a part has not are zero.  Engram and Speculation are    *)
(* extended rather than instantiated so that TLC computes their tables and   *)
(* lattices once.                                                            *)
EXTENDS TLC, Engram, Speculation

CONSTANTS Experts, RouteSlots, Routes, RouteSettings, Modes, Heats, MaxRouteSteps,
          Docs, Words, Chars, MaxText, AddedTokens, AddedTexts, Pushes, MaxRaw,   \* Tokenizer
          Options, Sessions, MaxTurns,                       \* ServeControl
          NucleusVocab, NucleusMass(_), BinWidth, Bins, TopK, Threads, Cap, NucleusSteps,
          SamplingCases                                      \* inputs of the sampling laws

VARIABLES component, pc,
          mode, granted, step, call, routed, res, fill, stamp, next, demand, asked, pending,
          queue, outstanding, owed, broken, slipped, spent,
          job, pushed, emitted,
          opt, engine, cur, context, logits, active, kept, score, req, ctl,
          case

R == INSTANCE ResidentRoute WITH Slots <- RouteSlots, Settings <- RouteSettings,
                                 MaxSteps <- MaxRouteSteps, last <- routed, out <- outstanding
T == INSTANCE Tokenizer WITH raw <- pushed, out <- emitted
V == INSTANCE ServeControl
N == INSTANCE Nucleus WITH Vocab <- NucleusVocab, Mass <- NucleusMass, Steps <- NucleusSteps

\* The sampling laws are about operators: a behaviour is one input of one law, and the
\* lattice that is built from it.
SamplingInit == case \in SamplingCases
SamplingNext ==
    \/ case[1] = "paths" /\ case' = <<"path", Build(case[2])>>
    \/ case[1] = "laws" /\ case' = <<"law", <<case[2][1], Build(case[2][2])>>>>

\* The variables of each part that no other part has.
speculationOnly == <<model, hist, ring, status>>
routingOnly == <<mode, granted, step, call, routed, res, fill, stamp, next, demand, asked,
                 queue, outstanding, owed, broken, slipped, spent>>
tokenizerOnly == <<job, pushed, emitted>>
engramOnly == <<eset, history, todo, planes, reading, rowCache, buf, given, efaults,
                esteps>>
controlOnly == <<opt, engine, cur, context, logits, active, kept, score, req, ctl>>
samplingOnly == <<case>>

NoSpeculation == model = 0 /\ hist = 0 /\ ring = 0 /\ status = 0
NoRouting == mode = 0 /\ granted = 0 /\ step = 0 /\ call = 0 /\ routed = 0 /\ res = 0
    /\ fill = 0 /\ stamp = 0 /\ next = 0 /\ demand = 0 /\ asked = 0 /\ queue = 0
    /\ outstanding = 0 /\ owed = 0 /\ broken = 0 /\ slipped = 0 /\ spent = 0
NoTokenizer == job = 0 /\ pushed = 0 /\ emitted = 0
NoEngram == eset = 0 /\ history = 0 /\ todo = 0 /\ planes = 0 /\ reading = 0
    /\ rowCache = 0 /\ buf = 0 /\ given = 0 /\ efaults = 0 /\ esteps = 0
NoControl == opt = 0 /\ engine = 0 /\ cur = 0 /\ context = 0 /\ logits = 0 /\ active = 0
    /\ kept = 0 /\ score = 0 /\ req = 0 /\ ctl = 0
NoSampling == case = 0

ForwardInit ==
    \/ /\ component = "speculation" /\ SpeculationInit
       /\ NoRouting /\ NoTokenizer /\ NoEngram /\ NoControl /\ NoSampling
       /\ pc = 0 /\ pending = 0
    \/ /\ component = "routing" /\ R!Init
       /\ NoSpeculation /\ NoTokenizer /\ NoEngram /\ NoControl
       /\ NoSampling
    \/ /\ component = "tokenizer" /\ T!Init
       /\ NoSpeculation /\ NoRouting /\ NoEngram /\ NoControl /\ NoSampling
       /\ pc = 0 /\ set = 0
    \/ /\ component = "engram" /\ EngramInit
       /\ NoSpeculation /\ NoRouting /\ NoTokenizer /\ NoControl
       /\ NoSampling /\ pc = 0 /\ set = 0 /\ pending = 0
    \/ /\ component = "control" /\ V!ControlInit
       /\ NoSpeculation /\ NoRouting /\ NoTokenizer /\ NoEngram
       /\ NoSampling /\ pc = 0 /\ set = 0 /\ pending = 0
    \/ /\ component = "sampling" /\ SamplingInit
       /\ NoSpeculation /\ NoRouting /\ NoTokenizer /\ NoEngram /\ NoControl
       /\ pc = 0 /\ set = 0 /\ pending = 0

ForwardNext ==
    \/ /\ component = "speculation" /\ SpeculationNext
       /\ UNCHANGED <<component, routingOnly, tokenizerOnly, engramOnly,
                      controlOnly, samplingOnly, pc, pending>>
    \/ /\ component = "routing" /\ R!Next
       /\ UNCHANGED <<component, speculationOnly, tokenizerOnly, engramOnly,
                      controlOnly, samplingOnly>>
    \/ /\ component = "tokenizer" /\ T!Next
       /\ UNCHANGED <<component, speculationOnly, routingOnly, engramOnly,
                      controlOnly, samplingOnly, pc, set>>
    \/ /\ component = "engram" /\ EngramNext
       /\ UNCHANGED <<component, speculationOnly, routingOnly, tokenizerOnly,
                      controlOnly, samplingOnly, pc, set, pending>>
    \/ /\ component = "control" /\ V!ControlNext
       /\ UNCHANGED <<component, speculationOnly, routingOnly, tokenizerOnly,
                      engramOnly, samplingOnly, pc, set, pending>>
    \/ /\ component = "sampling" /\ SamplingNext
       /\ UNCHANGED <<component, speculationOnly, routingOnly, tokenizerOnly,
                      engramOnly, controlOnly, pc, set, pending>>

forwardVars == <<component, speculationOnly, routingOnly, tokenizerOnly, engramOnly, controlOnly, samplingOnly,
          pc, set, pending>>

ForwardSpec == ForwardInit /\ [][ForwardNext]_forwardVars

(* ------------------------------ properties ------------------------------ *)

\* Speculative decoding emits what decoding one token at a time emits, and leaves the
\* window ring with the committed positions only (Speculator, Engine::speculative_step).
SpeculationSound == component = "speculation" => StreamExact /\ RingExact

\* A layer routed to resident experts computes over experts that are resident, with the
\* weights of the kept ones, and its background reads are counted and stamped once; and
\* a request's routing mode is gone when the request is (resident_route.cpp, Engine).
RoutingSound ==
    /\ [](component = "routing" => R!RouteSound /\ R!QueueExact)
    /\ [][component = "routing" => R!RequestStep]_forwardVars

\* BPE with stale heap entries merges as the reference does, texts are cut at added tokens
\* the same way, and what a stream decoder returns piece by piece is what decoding all
\* ids at once returns (Tokenizer, StreamDecoder).
TextExact == component = "tokenizer" => T!StreamReads /\ T!EncoderExact

\* The rows an engram layer hands to the device are those its context hashes to, whatever
\* was fetched ahead, left half-read or cached; and the tables' moduli are distinct primes
\* (EngramRunner, EngramTables).
EngramSound == component = "engram" => EngramRowsExact /\ EngramTablesSound

\* A serve turn decodes under the routing its decode_mode names and leaves the one it
\* found, and scores are of the last turn of the session they are asked of, unless that
\* turn was cancelled before its first step (cmd_serve, DecodePolicyGuard).
ControlSound == component = "control" => V!ControlExact

\* The two best tokens of a row.
TwoBest(r) ==
    LET a == first_argmax(r, Vocab)
        b == first_argmax([r EXCEPT ![a] = -1], Vocab)
    IN  [v \in 0..1 |-> IF v = 0 THEN a ELSE b]

\* The draft tree's path is the best one, acceptance and residual sampling give exactly the
\* target's distribution, the GPU's row reduction and its top set are the host's
\* (spec.cpp, sampling.cpp).
SamplingExact ==
    component = "sampling" =>
        /\ case[1] = "path" => PathsBest(case[2])
        /\ case[1] = "law" => Lossless(case[2][1], case[2][2])
        /\ case[1] = "law" =>
             LET r == case[2][1]
                 v == TwoBest(r)
             IN  4 % (r[v[0]] + r[v[1]]) = 0 => LosslessTopKv(r, v, case[2][2])
        /\ case[1] = "row" => RowExact(case[2][1], case[2][2])
        /\ case[1] = "nucleus" => N!NucleusExact(case[2][1], case[2][2])

(* ----------------------------- the instances ----------------------------- *)

\* Two draft positions with two candidates each.
AsRow(t) == [c \in 0..1 |-> t[c + 1]]
Input(ids, base, bias, anchor) == [ids |-> ids, base |-> base, bias |-> bias, anchor |-> anchor]
NoAnchor == [i \in Pos |-> 0]
MCLattices ==
    {Build(Input([i \in Pos |-> AsRow(t[i])], [i \in Pos |-> AsRow(<<1, 2>>)],
                   [i \in Pos |-> [p \in Prev(i) |-> AsRow(IF p = 0 THEN <<1, 1>> ELSE <<4, 1>>)]],
                   NoAnchor)) :
       t \in [Pos -> {<<0, 1>>, <<1, 2>>}]}
MCConfs == {[i \in Pos |-> 9], [i \in Pos |-> IF i = 1 THEN 2 ELSE 9],
            [i \in Pos |-> IF i = 1 THEN -1 ELSE 5]}
MCTarget(m, s) ==
    IF m = "cycle" THEN [x \in 0..2 |-> (s[Len(s)] + 2 * s[1] + x) % 3]
    ELSE [x \in 0..2 |-> IF x = s[1] THEN 0 ELSE ((x + s[Len(s)]) % 2) + 1]
BySpeculator(how, k, obj) ==
    [by |-> "speculator", mode |-> how, k |-> k, theta |-> 5, objective |-> obj, stops |-> {}]
ByEngine(topk, greedy, least) ==
    [by |-> "engine", max_draft |-> 2, min_confidence |-> least, topk |-> topk,
     greedy |-> greedy, stops |-> {2}]
MCSpecSettings ==
    {BySpeculator("greedy", 0, "eal"), BySpeculator("greedy", 2, "viterbi"),
     BySpeculator("greedy", 9, "chain"), BySpeculator("sample", 2, "eal"),
     ByEngine(1, TRUE, 0), ByEngine(1, TRUE, 4), ByEngine(2, TRUE, 0), ByEngine(1, FALSE, 0)}
MCPrompt == <<0, 1, 1>>

MCRoutes == {[ids |-> <<0, 1>>, w |-> <<3, 2>>], [ids |-> <<2, 0>>, w |-> <<1, 1>>]}
Skip == [startup |-> "skip", fixed |-> FALSE, spec |-> TRUE, tau |-> -1, keep |-> 2, cap |-> 1,
         iocap |-> 2, half |-> FALSE, backfill |-> FALSE]
MCRouteSettings ==
    {[Skip EXCEPT !.keep = 1],
     [Skip EXCEPT !.startup = "stall1", !.backfill = TRUE, !.cap = 2],
     [Skip EXCEPT !.startup = "verify", !.spec = FALSE],
     [Skip EXCEPT !.startup = "mask", !.tau = 3, !.spec = FALSE],
     [Skip EXCEPT !.startup = "mask", !.fixed = TRUE],
     [Skip EXCEPT !.half = TRUE]}

Toks == {<<1>>, <<2>>, <<1, 1>>, <<1, 2>>, <<2, 1>>, <<1, 1, 2>>, <<1, 2, 1>>}
Pairs == {<<<<1>>, <<1>>>>, <<<<1>>, <<2>>>>, <<<<2>>, <<1>>>>, <<<<1>>, <<1, 2>>>>,
          <<<<1, 1>>, <<2>>>>, <<<<1, 2>>, <<1>>>>, <<<<1>>, <<2, 1>>>>}
MCDocs ==
    {[vocab |-> Toks, merges |-> m] :
       m \in {q \in [1..4 -> Pairs] : \A i, j \in 1..4 : i # j => q[i] # q[j]}}
    \cup {[vocab |-> Toks \ {<<1, 2>>}, merges |-> <<<<<<1>>, <<2>>>>>>]}
MCWords == UNION {[1..n -> {1, 2}] : n \in {3, 4}} \cup {<<>>, <<2>>, <<1, 1, 2, 1, 1>>}
MCAdded == {<<{<<"p">>, <<"p", "q">>}, {<<"q">>}>>,
            <<{<<"p", "q", "p">>}, {<<"q", "p">>, <<"p", "p">>}>>,
            <<{}, {<<"q">>}>>}
MCAddedTexts == UNION {[1..n -> {"p", "q", "r"}] : n \in 0..4}
MCPushes == {<<65>>, <<195>>, <<224>>, <<240>>, <<128>>, <<160>>, <<144, 128>>, <<128, 195>>, <<255>>}

MCEngramLayers == <<1, 14>>
\* The last token is a byte that is no text and is spelled as the one before it reads.
MCTexts == << <<"a">>, <<"space">>, <<"A", "acute", "tab", "space">>, <<"ogham">>, <<"ae">>,
              <<"U+FFFD">> >>
MCSpellings == << <<"a">>, <<"G">>, <<"A", "b", "c">>, <<"d", "e">>, <<"f", "g">>, <<"ae">> >>
MCDraws(layer, n) == (layer * 5 + n * 3) % 11
Early == [early |-> TRUE, scales |-> FALSE, vocab |-> 1847, fed |-> {0, 3}, faults |-> 1]
MCEngramSettings ==
    {Early, [Early EXCEPT !.early = FALSE, !.scales = TRUE, !.vocab = 3],
     [Early EXCEPT !.fed = {3}, !.faults = 2]}

PlainServe == [streams |-> 1, spec |-> FALSE, allowRoute |-> TRUE, allowSpec |-> FALSE,
          fixed |-> FALSE, route |-> "off", state |-> FALSE]
MCOptions ==
    {PlainServe,
     [PlainServe EXCEPT !.allowRoute = FALSE, !.state = TRUE],
     [PlainServe EXCEPT !.streams = 2, !.allowRoute = FALSE],
     [PlainServe EXCEPT !.spec = TRUE, !.allowSpec = TRUE, !.route = "mask"],
     [PlainServe EXCEPT !.spec = TRUE, !.streams = 2]}

Weights == {<<1, 1>>, <<1, 2>>, <<2, 1>>}
PathInputs ==
    {in \in {Input([i \in Pos |-> AsRow(IF i = 0 THEN <<0, 1>> ELSE <<1, 2>>)],
                   [i \in Pos |-> AsRow(b[i])],
                   [i \in Pos |-> [p \in Prev(i) |-> AsRow(m[i][p])]], an) :
               b \in [Pos -> {<<1, 1>>, <<2, 1>>}], m \in [Pos -> [0..1 -> Weights]],
               an \in {NoAnchor, [i \in Pos |-> 6]}} : Builds(in)}
LawRows == {r \in [0..2 -> 0..4] : r[0] + r[1] + r[2] = 4}
LawInputs ==
    {Input([i \in Pos |-> AsRow(t)], [i \in Pos |-> AsRow(b)],
           [i \in Pos |-> [p \in Prev(i) |-> AsRow(<<1, 1>>)]], NoAnchor) :
       t \in {<<0, 1>>, <<2, 0>>}, b \in {<<1, 1>>, <<1, 3>>, <<3, 1>>, <<0, 4>>}}
MCMass(d) == IF d = 0 THEN 4 ELSE IF d = 1 THEN 2 ELSE IF d <= 3 THEN 1 ELSE 0
MCSamplingCases ==
    ({"paths"} \X PathInputs) \cup ({"laws"} \X (LawRows \X LawInputs))
    \cup ({"row"} \X ([0..2 -> 0..2] \X {<<0, 2>>, <<1, -1, 2>>, <<2, 1, 0>>}))
    \cup ({"nucleus"} \X ([0..3 -> 0..4] \X {<<1, 2>>, <<3, 4>>, <<1, 1>>, <<1, 4>>}))
=============================================================================
