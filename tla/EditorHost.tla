------------------------------ MODULE EditorHost ------------------------------
(***************************************************************************)
(* The two callers of the program runtime: editor_host.c, the process that *)
(* the effect editor talks to, and the caller of the headers (the C tests, *)
(* and the audio engine that docs/app/EFFECT_RUNTIME.md describes).        *)
(*                                                                         *)
(* The process prepares the editor's program, applies the overrides of its *)
(* command line, and then serves a stream of requests on its standard      *)
(* input, or renders what it finds there, or only reports.  Samples are    *)
(* left out: the model counts frames.                                      *)
(***************************************************************************)
EXTENDS ProgramRuntime

CONSTANTS Requests,    \* frames that a request of the stream may have
          MaxFrames    \* bound on the frames of a run

ASSUME EditorHostAssumption == Requests \subseteq Nat \ {0} /\ MaxFrames \in Nat

VARIABLES client,             \* "editor", "caller" of the headers, or another program
          mode,               \* "stream", "render" (the default) or "verify"
          edited,             \* editor_program
          overrides,          \* sequence of [node, id, value, status]
          pc,                 \* where main() is
          request, left,      \* frames of the request, and those still to process
          answered,           \* frames answered since the start
          exit                \* exit status of the process

process == <<client, mode, edited>>
hostVars == <<process, overrides, pc, request, left, answered, exit>>
editorVars == <<runtimeVars, hostVars>>

Lesser(a, b) == IF a < b THEN a ELSE b

HostInit ==
    /\ pc = IF client = "editor" THEN "arguments" ELSE "calls"
    /\ request = 0 /\ left = 0 /\ answered = 0 /\ exit = 0

Exits(code) == pc' = "exited" /\ exit' = code

-----------------------------------------------------------------------------
(* From the arguments to the first frame.                                  *)

\* A format or an argument that main() refuses.
BadArguments ==
    /\ pc = "arguments"
    /\ Exits(2)
    /\ UNCHANGED <<runtimeVars, process, overrides, request, left, answered>>

\* The chain is not initialized over a registry that is not valid, and then
\* nothing is prepared.
Start ==
    /\ pc = "arguments"
    /\ IF RegistryValidate(registry) = "OK"
       THEN PrepareBegins(edited)
       ELSE UNCHANGED runtimeVars
    /\ pc' = "prepare"
    /\ UNCHANGED <<process, overrides, request, left, answered, exit>>

Prepared == RegistryValidate(registry) = "OK" /\ prepared = "OK"

\* The overrides that are still to be applied have no status.
Unapplied == {k \in DOMAIN overrides : overrides[k].status = "none"}
Accepted == \A k \in DOMAIN overrides : overrides[k].status = "OK"

\* One round of apply_overrides: a failure does not stop it.
Override(k) ==
    /\ pc = "prepare" /\ Prepared
    /\ k \in Unapplied /\ \A j \in Unapplied : k <= j
    /\ SetParameter(overrides[k].node, overrides[k].id, overrides[k].value)
    /\ overrides' = [overrides EXCEPT ![k].status = status']
    /\ UNCHANGED <<library, accepted, preparation, cursor>>
    /\ UNCHANGED <<process, pc, request, left, answered, exit>>

\* ready_status: everything was accepted.
ReadyStatus ==
    /\ Prepared /\ Accepted
    /\ CatalogValidate(library.catalog, registry) = "OK" /\ accepted = "OK"

\* run_stream announces its status and goes on only if it is OK; rendering
\* asks for less; verifying reports and ends.
Ready ==
    /\ pc = "prepare"
    /\ prepared # "building" /\ (Prepared => Unapplied = {})
    /\ \/ mode = "stream" /\ ReadyStatus /\ pc' = "header" /\ UNCHANGED <<exit, request, left>>
       \/ mode = "stream" /\ ~ReadyStatus /\ Exits(5) /\ UNCHANGED <<request, left>>
       \/ mode = "stream" /\ Exits(4) /\ UNCHANGED <<request, left>>  \* nobody reads
       \/ /\ mode = "render" /\ Prepared
          /\ \E frames \in Requests : request' = frames /\ left' = frames
          /\ pc' = "blocks" /\ UNCHANGED exit
       \/ /\ mode = "verify" \/ ~Prepared
          /\ mode # "stream"
          /\ Exits(0) /\ UNCHANGED <<request, left>>
    /\ UNCHANGED <<runtimeVars, process, overrides, answered>>

-----------------------------------------------------------------------------
(* The frames.                                                             *)

\* The header of a request, and its payload; or the end of the stream.
Header ==
    /\ pc = "header"
    /\ \/ /\ \E frames \in Requests :
               /\ answered + frames <= MaxFrames
               /\ request' = frames /\ left' = frames
          /\ pc' = "blocks" /\ UNCHANGED exit
       \/ /\ \E code \in {0, 6, 7, 8} :   \* end, bad size, no memory, cut short
               Exits(code)
          /\ UNCHANGED <<request, left>>
    /\ UNCHANGED <<runtimeVars, process, overrides, answered>>

\* Faulty variant: a block in which an effect failed is skipped, and the rest goes on.
FailureSkipped == left' = left - Lesser(left, BlockFrames) /\ UNCHANGED <<pc, exit>>

\* The first failure ends the stream; a rendering is written as far as it got.
FailureEnds ==
    /\ IF mode = "stream" THEN Exits(9) ELSE pc' = "write" /\ UNCHANGED exit
    /\ UNCHANGED left

\* A round of stream_process_samples, or of the loop in main().
Block ==
    /\ pc = "blocks" /\ left > 0
    /\ Process(Lesser(left, BlockFrames))
    /\ IF status' = "OK"
       THEN left' = left - Lesser(left, BlockFrames) /\ UNCHANGED <<pc, exit>>
       ELSE FailureEnds
    /\ UNCHANGED <<library, accepted, preparation, cursor>>
    /\ UNCHANGED <<process, overrides, request, answered>>

Answer ==
    /\ pc = "blocks" /\ left = 0
    /\ \/ mode = "stream" /\ pc' = "header" /\ UNCHANGED exit
       \/ mode = "stream" /\ Exits(10)   \* nobody reads the answer
       \/ mode = "render" /\ pc' = "write" /\ UNCHANGED exit
    /\ answered' = answered + request
    /\ request' = 0
    /\ UNCHANGED <<runtimeVars, process, overrides, left>>

\* The frames, those that no effect has seen too, and the report.
Write ==
    /\ pc = "write"
    /\ Exits(0)
    /\ UNCHANGED <<runtimeVars, process, overrides, request, left, answered>>

PrepareStep == Prepare /\ UNCHANGED hostVars

EditorNext ==
    \/ BadArguments \/ Start \/ PrepareStep \/ Ready
    \/ \E k \in DOMAIN overrides : Override(k)
    \/ Header \/ Block \/ Answer \/ Write

-----------------------------------------------------------------------------
(* The caller of the headers.  A call of its own on the chain makes what   *)
(* was prepared before another chain.                                      *)

CONSTANTS Keys,         \* effects that a caller may ask for
          Ids, Levels,  \* parameters and values that it may set
          Programs,     \* programs that it may prepare
          Banks         \* banks that it may select

Calls(call) == call /\ UNCHANGED hostVars

OnChain(call) ==
    /\ pc = "calls" /\ prepared # "building" /\ Calls(call)
    /\ prepared' = "none" /\ program' = NULL /\ node' = 0 /\ parameter' = 0
    /\ UNCHANGED <<library, accepted, cursor>>

Age(i) == instances[i].age

ChainCalls ==
    \/ \E p \in Programs : Calls(PrepareBegins(p))
    \/ PrepareStep
    \/ \E key \in Keys : OnChain(Add(key))
    \/ \E i \in 1 .. Len(instances) + 1, id \in Ids, value \in Levels :
         OnChain(SetParameter(i, id, value))
    \/ OnChain(Clear) \/ OnChain(Reset)
    \/ \E frames \in {BlockFrames, BlockFrames + 1} :
         /\ \A i \in DOMAIN instances : Age(i) < BlockFrames
         /\ OnChain(Process(frames))

CursorCalls ==
    \/ \E bank, position \in 1 .. Len(library.banks) + 1 :
         Calls(CursorInitialize(bank, position))
    \/ Calls(NextProgram) \/ Calls(PreviousProgram)
    \/ Calls(NextBank) \/ Calls(PreviousBank)
    \/ \E key \in Banks, position \in 1 .. Len(library.banks) + 1 :
         Calls(SelectBank(key, position))

-----------------------------------------------------------------------------
\* What a parameter was given last: by an override that was accepted, else by
\* the program, else by the effect's default.
Overriding(i, id) ==
    {k \in DOMAIN overrides :
       overrides[k].node = i /\ overrides[k].id = id /\ overrides[k].status = "OK"}

Given(i, id) ==
    LET overriding == Overriding(i, id)
        listed == {k \in DOMAIN Values(i) : Values(i)[k].id = id}
    IN  IF overriding # {}
        THEN overrides[CHOOSE k \in overriding : \A j \in overriding : j <= k].value
        ELSE IF listed # {} THEN Values(i)[CHOOSE k \in listed : TRUE].value
        ELSE ParameterFind(instances[i].effect, id).default

\* program_runtime.h:99-102: "a partially initialized program can never become
\* active".  After program_prepare the chain is the whole program, every
\* parameter at what it was given last, or it is empty.
PreparedIsWhole ==
    /\ prepared = "OK" =>
         /\ [i \in DOMAIN instances |-> instances[i].effect.key]
              = [i \in DOMAIN program.nodes |-> program.nodes[i].effect]
         /\ \A i \in DOMAIN instances : \A id \in DOMAIN instances[i].values :
              instances[i].values[id] = Given(i, id)
    /\ prepared = "CHAIN_ERROR" => instances = << >> /\ used = 0

\* "Retain effect state while processing length-framed chunks" (editor_host.c:16):
\* the stream serves only what was accepted in full, and however the frames
\* were cut into requests and blocks, the history of every effect is as long
\* as what was answered, up to the block at hand.
StreamKeepsTime ==
    mode = "stream" /\ pc \in {"header", "blocks"} =>
        /\ Prepared /\ Accepted
        /\ \A i \in DOMAIN instances : Age(i) = answered + request - left
=============================================================================
