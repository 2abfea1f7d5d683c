----------------------------- MODULE ServeControl -----------------------------
(***************************************************************************)
(* cmd_serve's other half: the options it starts with, the requests that    *)
(* change how the engine decodes (set_decode_route, set_spec_config,        *)
(* set_draft_head, a generate's decode_mode), generate_multi, and           *)
(* score_tokens, which reads logits an earlier request left.  Serve models  *)
(* the sessions and their files; here a session's context is the number of  *)
(* the turn that wrote it.  The loop is synchronous and nothing here is      *)
(* shared with another thread; a generate is a step for each                *)
(* request_decode_policy, its own and Session::generate's, and one for the  *)
(* turn.                                                                    *)
(***************************************************************************)
EXTENDS Integers, Sequences, FiniteSets, SequencesExt

CONSTANTS Options,      \* command lines: see Accepted
          Sessions,     \* session names, "default" among them
          MaxTurns      \* bound: turns of a process

VARIABLES opt,          \* the command line
          engine,       \* [route, tau, draft, fp8]: what decides a step
          cur,          \* the selected stream, from 0
          context,      \* the turn whose tokens each stream's KV store holds, 0 if none
          logits,       \* the turn whose step wrote each stream's logits_
          active, kept, \* SessionPool: the live session, and the parked contexts
          score,        \* [ready, session]: score_ready, score_session
          req,          \* the generate in hand: where it is, and the DecodePolicyGuards it holds
          ctl           \* what the properties remember

controlVars == <<opt, engine, cur, context, logits, active, kept, score, req, ctl>>

NoRequest == [at |-> "none", session |-> "default", mode |-> "startup", guards |-> <<>>]

Streams == 0..opt.streams - 1

\* The combinations cmd_serve and Engine::init refuse.
Accepted(o) ==
    /\ o.state => o.streams = 1 /\ ~o.spec /\ ~o.allowRoute /\ ~o.allowSpec /\ ~o.fixed /\ o.route = "off"
    /\ o.spec => o.streams = 1

ControlInit ==
    /\ opt \in {o \in Options : Accepted(o)}
    /\ engine = [route |-> opt.route, tau |-> FALSE, draft |-> 1, fp8 |-> FALSE]
    /\ cur = 0
    /\ context = [s \in Streams |-> 0]
    /\ logits = [s \in Streams |-> 0]
    /\ active = "default"
    /\ kept = [n \in Sessions |-> 0]
    /\ score = [ready |-> FALSE, session |-> "default"]
    /\ req = NoRequest
    /\ ctl = [turn |-> 0, last |-> [n \in Sessions |-> 0], route |-> opt.route, unstepped |-> {},
              answer |-> <<>>]

-----------------------------------------------------------------------------
(* Requests that change how the engine decodes.                              *)

Controls == req.at = "none" /\ UNCHANGED <<opt, cur, context, logits, active, kept, score, req>>

SetDecodeRoute ==
    /\ opt.allowRoute /\ ~opt.spec /\ opt.streams = 1
    /\ \E mode \in {"off", "mask"}, tau \in BOOLEAN :
        /\ tau => mode = "mask"
        /\ engine' = [engine EXCEPT !.route = mode, !.tau = tau]
        /\ ctl' = [ctl EXCEPT !.route = mode, !.answer = <<>>]
    /\ Controls

\* Both need the default session, live and empty, on the only stream.
Switchable == opt.allowSpec /\ active = "default" /\ opt.streams = 1 /\ cur = 0 /\ context[cur] = 0

SetSpecConfig ==
    /\ Switchable /\ opt.spec
    /\ engine.route = "mask" /\ ~opt.fixed /\ ~engine.tau
    /\ \E k \in 1..2 : engine' = [engine EXCEPT !.draft = k]
    /\ ctl' = [ctl EXCEPT !.answer = <<>>]
    /\ Controls

SetDraftHead ==
    /\ Switchable /\ opt.spec
    /\ \E on \in BOOLEAN : engine' = [engine EXCEPT !.fp8 = on]
    /\ ctl' = [ctl EXCEPT !.answer = <<>>]
    /\ Controls

-----------------------------------------------------------------------------
(* Sessions and turns.                                                       *)

\* switch_to: the live context is parked under its name, the other one restored.
Switched(n) ==
    [kept |-> IF n = active THEN kept ELSE [kept EXCEPT ![active] = context[cur], ![n] = 0],
     context |-> IF n = active THEN context[cur] ELSE kept[n]]

Unready == [score EXCEPT !.ready = FALSE]

Reset ==
    /\ req.at = "none"
    /\ \E n \in Sessions :
        /\ kept' = Switched(n).kept
        /\ context' = [context EXCEPT ![cur] = 0]
        /\ active' = n
        /\ score' = Unready
        /\ ctl' = [ctl EXCEPT !.answer = <<>>]
        /\ UNCHANGED <<opt, engine, cur, logits, req>>

DropSession ==
    /\ req.at = "none"
    /\ \E n \in Sessions :
        /\ IF n = active THEN context' = [context EXCEPT ![cur] = 0] /\ UNCHANGED kept
           ELSE kept' = [kept EXCEPT ![n] = 0] /\ UNCHANGED context
        /\ score' = Unready
        /\ ctl' = [ctl EXCEPT !.answer = <<>>]
        /\ UNCHANGED <<opt, engine, cur, logits, active, req>>

PolicyModes == {"startup", "mask-spec", "mask-plain", "off-plain"}

\* request_decode_policy: what it refuses, and the routing a mode selects.
PolicyRefused(mode) ==
    /\ mode # "startup"
    /\ \/ opt.streams # 1 \/ cur # 0 \/ opt.fixed \/ engine.tau
       \/ mode = "mask-spec" /\ ~opt.spec

Selected(mode) ==
    CASE mode = "startup" -> engine.route
      [] mode = "off-plain" -> "off"
      [] OTHER -> "mask"

\* DecodePolicyGuard: the route it found, and whether the mode changed it; restore()
\* puts the route back if so.
Guard(mode) == [previous |-> engine.route, changed |-> Selected(mode) # engine.route]

Restore(route, g) == IF g.changed THEN g.previous ELSE route

\* The guards go in the reverse of the order they came.
Restored == [engine EXCEPT !.route = FoldLeft(Restore, @, Reverse(req.guards))]

\* request_decode_policy gets as far as its guard, or is refused: for the engine's
\* state, or because the fills in flight do not settle in time for exact decoding.
Unsettled(mode) == mode = "off-plain"

Policy(at, n, mode) ==
    /\ req' = [at |-> at, session |-> n, mode |-> mode, guards |-> Append(req.guards, Guard(mode))]
    /\ engine' = [engine EXCEPT !.route = Selected(mode)]

\* serve's generate, from the scores it withdraws to its decode policy.
Generate ==
    /\ req.at = "none" /\ ctl.turn < MaxTurns
    /\ score' = Unready
    /\ ctl' = [ctl EXCEPT !.answer = <<>>]
    /\ \E n \in Sessions, mode \in PolicyModes :
         \/ (PolicyRefused(mode) \/ Unsettled(mode)) /\ UNCHANGED <<req, engine>>
         \/ ~PolicyRefused(mode) /\ Policy("policy", n, mode)
    /\ UNCHANGED <<opt, cur, context, logits, active, kept>>

\* A cancel that came before the turn started, or a switch_to that failed.
GenerateCancelled ==
    /\ req.at = "policy"
    /\ req' = NoRequest
    /\ engine' = Restored
    /\ UNCHANGED <<opt, cur, context, logits, active, kept, score, ctl>>

\* switch_to the session, and Session::generate asks for the policy again; when that is
\* refused the request fails and the session it has switched to is reset.
SessionGenerate ==
    /\ req.at = "policy"
    /\ active' = req.session
    /\ kept' = Switched(req.session).kept
    /\ \/ /\ Policy("turn", req.session, req.mode)
          /\ context' = [context EXCEPT ![cur] = Switched(req.session).context]
       \/ /\ Unsettled(req.mode)
          /\ req' = NoRequest
          /\ engine' = Restored
          /\ context' = [context EXCEPT ![cur] = 0]
    /\ UNCHANGED <<opt, cur, logits, score, ctl>>

\* What a turn may come to: [ends, steps, fed]: a decode step ran, and the prompt went
\* through the decode path.  A cancel in the prefill ends a turn that ran none.
Outcomes ==
    {[ends |-> TRUE, steps |-> TRUE, fed |-> TRUE],
     [ends |-> TRUE, steps |-> TRUE, fed |-> FALSE],
     [ends |-> TRUE, steps |-> FALSE, fed |-> FALSE],
     [ends |-> TRUE, steps |-> FALSE, fed |-> TRUE],
     [ends |-> FALSE, steps |-> TRUE, fed |-> TRUE]}

Ready(o) == o.ends /\ (o.steps \/ o.fed)

\* The turn, and what serve does with its end; a failed one resets the session.
Turn ==
    /\ req.at = "turn"
    /\ \E o \in Outcomes :
        LET turn == ctl.turn + 1
        IN  /\ context' = [context EXCEPT ![cur] = IF o.ends THEN turn ELSE 0]
            /\ logits' = IF o.steps THEN [logits EXCEPT ![cur] = turn] ELSE logits
            /\ score' = IF o.ends THEN [ready |-> Ready(o), session |-> active] ELSE score
            /\ ctl' = [ctl EXCEPT !.turn = turn, !.last[active] = turn,
                                  !.unstepped = IF o.steps THEN @ ELSE @ \union {turn}]
    /\ req' = NoRequest
    /\ engine' = Restored
    /\ UNCHANGED <<opt, cur, active, kept>>

\* generate_multi: a turn on each of some streams in any order; the last one stays selected.
MultiScoreKept == score
MultiScore == Unready
GenerateMulti ==
    /\ req.at = "none" /\ opt.streams > 1 /\ ctl.turn < MaxTurns
    /\ \E used \in SUBSET Streams \ {{}} : \E last \in used :
        LET turn == ctl.turn + 1
        IN  /\ context' = [s \in Streams |-> IF s \in used THEN turn ELSE context[s]]
            /\ logits' = [s \in Streams |-> IF s \in used THEN turn ELSE logits[s]]
            /\ cur' = last
            /\ score' = MultiScore
            /\ ctl' = [ctl EXCEPT !.turn = turn, !.answer = <<>>]
            /\ UNCHANGED <<opt, engine, active, kept, req>>

\* score_tokens reads the selected stream's logits and computes nothing.
ScoreTokens ==
    /\ req.at = "none" /\ score.ready /\ score.session = active
    /\ ctl' = [ctl EXCEPT !.answer = <<active, logits[cur]>>]
    /\ UNCHANGED <<opt, engine, cur, context, logits, active, kept, score, req>>

ControlNext ==
    \/ SetDecodeRoute \/ SetSpecConfig \/ SetDraftHead
    \/ Reset \/ DropSession \/ GenerateMulti \/ ScoreTokens
    \/ Generate \/ GenerateCancelled \/ SessionGenerate \/ Turn

ControlSpec == ControlInit /\ [][ControlNext]_controlVars

-----------------------------------------------------------------------------
(* A turn decodes under the routing its decode_mode names, or, when it names    *)
(* none, the one in force between requests, though two guards are held by then; *)
(* and between requests the engine routes as the last set_decode_route said, or *)
(* the command line, however the requests before were refused, cancelled,       *)
(* failed or ended: a decode_mode ends with its request.                        *)
RouteExact ==
    /\ req.at = "none" => engine.route = ctl.route
    /\ req.at = "turn" =>
          engine.route = CASE req.mode = "startup" -> ctl.route
                           [] req.mode = "off-plain" -> "off"
                           [] OTHER -> "mask"

(* The scores a client reads are the logits of the last turn of the session it  *)
(* asks about ("Read selected raw logits from the last completed emission"),    *)
(* whatever sessions, streams, resets and refused requests came between.  One   *)
(* turn is left out, because the code does not do so: a prompt on the decode    *)
(* path that is cancelled before its first step counts as ready, and its scores *)
(* are those of whichever turn stepped last on the stream.                      *)
ScoresExact ==
    \A i \in {1} \cap DOMAIN ctl.answer :
        LET last == ctl.last[ctl.answer[1]]
        IN  last \notin ctl.unstepped => ctl.answer[2] = last

ControlExact == RouteExact /\ ScoresExact
================================================================================
