------------------------------- MODULE LLMEngine -------------------------------
(***************************************************************************)
(* The one language model in memory: LLMEngine of                          *)
(* src/backend/app/llm/engine.py with the endpoints that load, unload and  *)
(* stream (src/backend/app/api/routes.py).  load, unload and generate hold *)
(* the lock, and assign the four class attributes one after the other;     *)
(* stream and the property `loaded` read them without it.                  *)
(***************************************************************************)
CONSTANTS
    Clients,   \* the threads of the server
    GgufRefs,  \* what load may be given: GGUF files ...
    HubRefs,   \* ... and Hugging Face models; the quantization is part of a reference
    Nothing    \* None

ASSUME RefsAssumption ==
    /\ GgufRefs \cap HubRefs = {}
    /\ Nothing \notin GgufRefs \cup HubRefs \cup Clients

VARIABLES
    model, tokenizer, loadedKey, backend,  \* _model, _tokenizer, _loaded_key, _backend
    lock,       \* the thread that holds _lock
    phase,      \* where each thread is
    ref,        \* the model_ref each thread loads
    read,       \* the tokenizer a stream has read
    disturbed,  \* history: an attribute was assigned since the stream began
    kept        \* history: the tokenizer and the model of a stream that came to its end

slotVars == <<model, tokenizer, loadedKey, backend>>
streamVars == <<read, disturbed, kept>>
engineVars == <<slotVars, lock, phase, ref, streamVars>>

Refs == GgufRefs \cup HubRefs
Backends == {"none", "llama.cpp", "transformers"}
UnloadLabels == {"unload_model", "unload_tokenizer", "unload_key", "unload_backend"}
LoadLabels == {"check", "load", "load_model", "to_device", "load_backend", "load_key"}
StreamLabels == {"stream", "tokenize", "llama", "generate"}
EngineLabels == {"idle", "lock", "hung"} \cup UnloadLabels \cup LoadLabels \cup StreamLabels

EngineInit ==
    /\ model = Nothing /\ tokenizer = Nothing /\ loadedKey = Nothing /\ backend = "none"
    /\ lock = Nothing
    /\ phase = [t \in Clients |-> "idle"]
    /\ ref = [t \in Clients |-> Nothing]
    /\ read = [t \in Clients |-> Nothing]
    /\ disturbed = [t \in Clients |-> FALSE]
    /\ kept = [t \in Clients |-> {}]

Step(t, from, to) == phase[t] = from /\ phase' = [phase EXCEPT ![t] = to]

\* An attribute is assigned: the streams that are running may see it.
Disturb == disturbed' = [t \in Clients |-> disturbed[t] \/ phase[t] \in StreamLabels]

Assigned == Disturb /\ UNCHANGED <<lock, ref, read, kept>>

-----------------------------------------------------------------------------
(* load and unload.                                                        *)

\* A request to load a model, or to unload (its reference is Nothing).
Request(t) ==
    /\ Step(t, "idle", "lock")
    /\ \E r \in Refs \cup {Nothing} : ref' = [ref EXCEPT ![t] = r]
    /\ UNCHANGED <<slotVars, lock, streamVars>>

Acquire(t) ==
    /\ lock = Nothing
    /\ Step(t, "lock", IF ref[t] = Nothing THEN "unload_model" ELSE "check")
    /\ lock' = t
    /\ UNCHANGED <<slotVars, ref, streamVars>>

Release(t) ==
    /\ lock' = Nothing
    /\ ref' = [ref EXCEPT ![t] = Nothing]
    /\ UNCHANGED <<slotVars, streamVars>>

Reuse(t) ==
    /\ loadedKey = ref[t] /\ model # Nothing
    /\ Step(t, "check", "idle")
    /\ Release(t)

\* Variant of Replace: the old model stays until the new one is there.
ReplaceLater(t) ==
    /\ ~(loadedKey = ref[t] /\ model # Nothing)
    /\ Step(t, "check", "load")
    /\ UNCHANGED <<slotVars, lock, ref, streamVars>>

\* load unloads what is there first.
Replace(t) ==
    /\ ~(loadedKey = ref[t] /\ model # Nothing)
    /\ Step(t, "check", "unload_model")
    /\ UNCHANGED <<slotVars, lock, ref, streamVars>>

UnloadModel(t) ==
    /\ Step(t, "unload_model", "unload_tokenizer")
    /\ model' = Nothing
    /\ Assigned /\ UNCHANGED <<tokenizer, loadedKey, backend>>

UnloadTokenizer(t) ==
    /\ Step(t, "unload_tokenizer", "unload_key")
    /\ tokenizer' = Nothing
    /\ Assigned /\ UNCHANGED <<model, loadedKey, backend>>

UnloadKey(t) ==
    /\ Step(t, "unload_key", "unload_backend")
    /\ loadedKey' = Nothing
    /\ Assigned /\ UNCHANGED <<model, tokenizer, backend>>

\* The last assignment; unload() itself returns here, load() goes on.
UnloadBackend(t) ==
    /\ phase[t] = "unload_backend"
    /\ backend' = "none"
    /\ Disturb
    /\ IF ref[t] = Nothing
       THEN phase' = [phase EXCEPT ![t] = "idle"] /\ lock' = Nothing
       ELSE phase' = [phase EXCEPT ![t] = "load"] /\ lock' = lock
    /\ UNCHANGED <<model, tokenizer, loadedKey, ref, read, kept>>

\* A Hugging Face model has its tokenizer first.
LoadTokenizer(t) ==
    /\ ref[t] \in HubRefs
    /\ Step(t, "load", "load_model")
    /\ tokenizer' = ref[t]
    /\ Assigned /\ UNCHANGED <<model, loadedKey, backend>>

LoadModel(t) ==
    /\ \/ ref[t] \in GgufRefs /\ Step(t, "load", "load_backend")
       \/ Step(t, "load_model", "to_device")
    /\ model' = ref[t]
    /\ Assigned /\ UNCHANGED <<tokenizer, loadedKey, backend>>

ToDevice(t) ==
    /\ Step(t, "to_device", "load_backend")
    /\ UNCHANGED <<slotVars, lock, ref, streamVars>>

LoadBackend(t) ==
    /\ Step(t, "load_backend", "load_key")
    /\ backend' = IF ref[t] \in GgufRefs THEN "llama.cpp" ELSE "transformers"
    /\ Assigned /\ UNCHANGED <<model, tokenizer, loadedKey>>

LoadKey(t) ==
    /\ Step(t, "load_key", "idle")
    /\ loadedKey' = ref[t]
    /\ Disturb
    /\ lock' = Nothing
    /\ ref' = [ref EXCEPT ![t] = Nothing]
    /\ UNCHANGED <<model, tokenizer, backend, read, kept>>

\* A missing library, a missing file or too little memory: `with` releases the
\* lock, and what is assigned by then stays.
LoadFails(t) ==
    /\ \E from \in {"load", "load_model", "to_device"} : Step(t, from, "idle")
    /\ Release(t)

-----------------------------------------------------------------------------
(* stream. generate reads the same attributes under the lock, in one step. *)

\* The endpoint asks `loaded`; the generator runs when the response is sent.
BeginStream(t) ==
    /\ model # Nothing
    /\ Step(t, "idle", "stream")
    /\ disturbed' = [disturbed EXCEPT ![t] = FALSE]
    /\ kept' = [kept EXCEPT ![t] = {}]
    /\ UNCHANGED <<slotVars, lock, ref, read>>

ReadBackend(t) ==
    /\ Step(t, "stream", IF backend = "llama.cpp" THEN "llama" ELSE "tokenize")
    /\ UNCHANGED <<slotVars, lock, ref, streamVars>>

ReadTokenizer(t) ==
    /\ tokenizer # Nothing
    /\ Step(t, "tokenize", "generate")
    /\ read' = [read EXCEPT ![t] = tokenizer]
    /\ UNCHANGED <<slotVars, lock, ref, disturbed, kept>>

\* The tokenizer is read more than once, and the model after it.
StreamAnswer(t) ==
    /\ \/ /\ model \in HubRefs
          /\ Step(t, "generate", "idle")
          /\ kept' = [kept EXCEPT ![t] = {read[t], model}]
       \/ /\ model \in GgufRefs
          /\ Step(t, "llama", "idle")
          /\ kept' = [kept EXCEPT ![t] = {model}]
    /\ read' = [read EXCEPT ![t] = Nothing]
    /\ UNCHANGED <<slotVars, lock, ref, disturbed>>

\* None has no such attribute, nor has a model of the other library.
StreamRaises(t) ==
    /\ \/ tokenizer = Nothing /\ Step(t, "tokenize", "idle")
       \/ model = Nothing /\ Step(t, "generate", "idle")
       \/ model \notin GgufRefs /\ Step(t, "llama", "idle")
    /\ read' = [read EXCEPT ![t] = Nothing]
    /\ UNCHANGED <<slotVars, lock, ref, disturbed, kept>>

\* A GGUF model has a generate of its own, which raises in the thread that runs
\* it: nothing is ever put into the streamer, and the request waits for ever.
StreamHangs(t) ==
    /\ model \in GgufRefs
    /\ Step(t, "generate", "hung")
    /\ UNCHANGED <<slotVars, lock, ref, streamVars>>

ClientStep(t) ==
    \/ Request(t) \/ Acquire(t) \/ Reuse(t) \/ Replace(t)
    \/ UnloadModel(t) \/ UnloadTokenizer(t) \/ UnloadKey(t) \/ UnloadBackend(t)
    \/ LoadTokenizer(t) \/ LoadModel(t) \/ ToDevice(t) \/ LoadBackend(t) \/ LoadKey(t)
    \/ LoadFails(t)
    \/ BeginStream(t) \/ ReadBackend(t) \/ ReadTokenizer(t) \/ StreamAnswer(t)
    \/ StreamRaises(t) \/ StreamHangs(t)

\* The process ends, and the model with it.
EngineRestart ==
    /\ model' = Nothing /\ tokenizer' = Nothing /\ loadedKey' = Nothing /\ backend' = "none"
    /\ lock' = Nothing
    /\ phase' = [t \in Clients |-> "idle"]
    /\ ref' = [t \in Clients |-> Nothing]
    /\ read' = [t \in Clients |-> Nothing]
    /\ disturbed' = [t \in Clients |-> FALSE]
    /\ kept' = [t \in Clients |-> {}]

EngineNext == EngineRestart \/ \E t \in Clients : ClientStep(t)

EngineSpec == EngineInit /\ [][EngineNext]_engineVars
-----------------------------------------------------------------------------
EngineTypeOK ==
    /\ {model, tokenizer, loadedKey} \subseteq Refs \cup {Nothing}
    /\ backend \in Backends
    /\ lock \in Clients \cup {Nothing}
    /\ phase \in [Clients -> EngineLabels]
    /\ ref \in [Clients -> Refs \cup {Nothing}]
    /\ read \in [Clients -> Refs \cup {Nothing}]
    /\ disturbed \in [Clients -> BOOLEAN]
    /\ kept \in [Clients -> SUBSET (Refs \cup {Nothing})]

\* Whatever was loaded, unloaded and failed half-way before: when nobody holds the
\* lock, the model is that of the key, it has its own tokenizer, and the backend
\* generate goes by is that of the model.
LoadedIsWhole ==
    lock = Nothing =>
        /\ loadedKey # Nothing => model = loadedKey
        /\ model \in HubRefs => tokenizer = model
        /\ model \in GgufRefs <=> backend = "llama.cpp"

\* A stream, which takes no lock, answers with one model and its own tokenizer,
\* and comes to its end, unless an attribute was assigned while it ran.
StreamIsOneModel ==
    \A t \in Clients : ~disturbed[t] =>
        /\ \A m, n \in kept[t] : m = n
        /\ phase[t] # "hung"
=============================================================================
