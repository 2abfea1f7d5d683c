------------------------------ MODULE MCPasses ------------------------------
(* The three passes over a context that have an engine to themselves: decode   *)
(* steps (Decode), the turns on a stream's context (KvContext) and the GPU     *)
(* prefill (Prefill).  A behaviour is one of one of them, which `component`    *)
(* names; a variable that two of them have is shared, and the variables one    *)
(* has not are zero.  Decode is extended rather than instantiated so that TLC  *)
(* computes its tables of calls once.                                          *)
EXTENDS MCDecode

CONSTANTS tokA, tokB, Tokens, Prompts, Window, MaxContext, FirstContext, MaxNew, MaxDraft,
          GpuMin, Speedup, BakeMin, ContextConfigs,                     \* KvContext
          PrefillEngram, Experts, TransitSlots, PrefillConfigs, ReadFaults, CutLayer, KvSources,
          IndexSources, DraftLayers, CandLayer, PrefillRatio, PrefillWindow, TopK, QueryBlock,
          W16Slots                                              \* Prefill

VARIABLES component,
          hist, kv, hid, drafter, snap, parked, baked, turn,
          at, ahead, batches, dest, cache, guards, reads, mem, rows, buf, src, picks, cand, w16,
          hand

K == INSTANCE KvContext WITH Configs <- ContextConfigs
P == INSTANCE Prefill WITH Configs <- PrefillConfigs, EngramLayers <- PrefillEngram,
                           Window <- PrefillWindow, Ratio <- PrefillRatio
Setups == INSTANCE PrefillSetups

\* The variables of each part that no other part has.
decodeOnly == <<job, st, queue, store>>
contextOnly == <<hist, kv, hid, drafter, snap, parked, baked, turn>>
prefillOnly == <<at, ahead, batches, dest, cache, guards, reads, mem, rows, buf, src, picks, cand,
                 w16, hand>>

NoDecode == job = 0 /\ st = 0 /\ queue = 0 /\ store = 0
NoContext == hist = 0 /\ kv = 0 /\ hid = 0 /\ drafter = 0 /\ snap = 0 /\ parked = 0 /\ baked = 0
    /\ turn = 0
NoPrefill == at = 0 /\ ahead = 0 /\ batches = 0 /\ dest = 0 /\ cache = 0 /\ guards = 0 /\ reads = 0
    /\ mem = 0 /\ rows = 0 /\ buf = 0 /\ src = 0 /\ picks = 0 /\ cand = 0 /\ w16 = 0 /\ hand = 0

PassesInit ==
    \/ /\ component = "decode" /\ Init
       /\ NoContext /\ NoPrefill
    \/ /\ component = "context" /\ K!Init
       /\ NoDecode /\ NoPrefill /\ pump = 0 /\ faults = 0
    \/ /\ component = "prefill" /\ P!Init
       /\ NoDecode /\ NoContext

PassesNext ==
    \/ /\ component = "decode" /\ Next
       /\ UNCHANGED <<component, contextOnly, prefillOnly>>
    \/ /\ component = "context" /\ K!Next
       /\ UNCHANGED <<component, decodeOnly, prefillOnly, pump, faults>>
    \/ /\ component = "prefill" /\ P!Next
       /\ UNCHANGED <<component, decodeOnly, contextOnly>>

passesVars == <<component, decodeOnly, contextOnly, prefillOnly, conf, pump, faults>>

PassesSpec == PassesInit /\ [][PassesNext]_passesVars

(* ------------------------------ properties ------------------------------ *)

\* A step computes from what it bound: neither the buffers already submitted nor the
\* gate's output change under it (Engine::layer_gate, layer_moe, advance_store_guard).
StepSound == component = "decode" => BuffersSound /\ GateHeld

\* Between steps nothing is submitted, and no stream keeps a guard that would hold the
\* next publication down (advance_store_guard, Engine::decode_step and its multi-stream
\* schedules).
IdleReleased == component = "decode" => GuardsReleased

\* No wait of the host is for something only the host itself would do later
\* (Engine::layer_gate, layer_moe, step_tail).
NeverStuck == component = "decode" => HostGoesOn

\* The context a turn decodes from is its history's own: the window's slots, the
\* compressed rows and the open group, live and parked (KvStore, Engine's sessions).
ContextExact == component = "context" => K!OwnContext

\* A speculative cycle is never refused for its hidden window: whenever a turn may draft,
\* the drafter follows the context or can be seeded from it (Engine::speculative_step).
DraftReady == component = "context" => K!DraftWindow

\* A speculative cycle leaves no trace of the drafts it rejected in the ring or in the
\* hidden window (Engine::speculative_step, KvStore).
RejectedLeaveNoTrace == [][component = "context" => K!RejectStep]_passesVars

\* While a batch of experts computes, the memory it reads holds those experts and no read
\* is headed there, and what is handed to the decode cache is what its slots say
\* (Prefill::run_moe, Engine::gpu_prefill, admit_streamed).
TransitExact == component = "prefill" => P!BasesHold

\* Every operation of the prefill reads the rows of its own positions, and what is handed
\* to the decoder is what a prefill without replay hands over (Prefill::run_layer).
HandoffExact == component = "prefill" => P!RowsHanded

(* ----------------------------- the instances ----------------------------- *)

\* A window of four positions, and prompts that wrap it and branch off one another.
Short == <<tokA, tokA, tokB>>
Long == <<tokA, tokA, tokA, tokA, tokB>>
Longer == <<tokA, tokA, tokA, tokA, tokA, tokB>>
MCPrompts == {Short, Long, Longer}

Option(prompts, spec, gpu, park, bake) ==
    [prompts |-> prompts, replay |-> Window, spec |-> spec, gpu |-> gpu, park |-> park,
     bake |-> bake]

\* The decode path with two sessions; GPU prefill with baked prompts; speculation.
MCContexts ==
    {Option({Long, Longer}, FALSE, FALSE, TRUE, FALSE),
     Option({Short, Longer}, FALSE, TRUE, FALSE, TRUE),
     Option(MCPrompts, TRUE, TRUE, FALSE, FALSE)}

MCPrefills == Setups!MCConfigs
MCPrefillExperts == Setups!MCExperts
=============================================================================
