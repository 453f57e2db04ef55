----------------------------- MODULE TrainingCycle -----------------------------
(***************************************************************************)
(* The data path of a training cycle: run_cycle and _bootstrap_seed_model  *)
(* of src/backend/app/orchestrator/core.py and train_candidate of          *)
(* src/backend/app/training/trainer.py, over the tables training_cycles,   *)
(* training_samples, datasets and models.  What the same calls do to the   *)
(* statuses of the models is in Promotion, what they cost in Budget.       *)
(***************************************************************************)
EXTENDS Integers, Sequences, FiniteSets

CONSTANTS
    Runners,   \* the threads that train
    Samples,   \* the training samples there are
    Text,      \* Text[s]: the text of s as dedup compares it, without case and spacing
    Refused,   \* those the length and privacy filters refuse
    Poor,      \* those of a quality below 0.7
    SeedData,  \* SEED_DATA
    Extras,    \* what the requests bring as extra_samples
    MaxCycles  \* bound on the rows of training_cycles

ASSUME SamplesAssumption ==
    /\ Refused \subseteq Samples /\ Poor \subseteq Samples
    /\ SeedData \subseteq Samples \ (Refused \cup Poor)
    /\ Extras \subseteq SUBSET Samples

VARIABLES
    cycles,     \* the rows of training_cycles, in the order of their INSERTs
    datasets,   \* the rows of datasets: their samples, by name and version
    approved,   \* the samples of training_samples with approval_status 'approved'
    models,     \* the rows of models: the data set each one names, and, as a history,
                \* the new samples and the whole batch it was trained on
    production, \* the registry shows a current model
    step,       \* where each thread is
    row,        \* the cycle each thread runs, 0 outside one
    data,       \* the data set of that cycle: its name and version
    number,     \* the number read with SELECT MAX + 1
    samples,    \* `samples` of run_cycle
    left,       \* those clean_and_version_dataset has not looked at yet
    noted       \* those whose text it was the first to bring

tableVars == <<cycles, datasets, approved, models, production>>
cycleVars == <<row, data, number, samples, left, noted>>
trainingVars == <<tableVars, cycleVars, step>>

TrainingLabels == {"idle", "number", "open", "seed", "collect", "clean", "store",
    "train", "verdict", "adopted"}
NoData == <<"none", 0>>
Usable(set) == set \ (Refused \cup Poor)
Texts(set) == {Text[s] : s \in set}
Stored == UNION {datasets[key] : key \in DOMAIN datasets}

\* COALESCE(MAX(...), 0) + 1 over a set of numbers.
NextNumber(set) == CHOOSE n \in {k + 1 : k \in set \cup {0}} : \A k \in set : k < n

Versions == {key[2] : key \in {k \in DOMAIN datasets : k[1] = "collected"}}

TrainingInit ==
    /\ step = [t \in Runners |-> "idle"]
    /\ cycles = << >> /\ approved = {} /\ models = << >> /\ production = FALSE
    /\ datasets = [key \in {} |-> {}]
    /\ row = [t \in Runners |-> 0]
    /\ data = [t \in Runners |-> NoData]
    /\ number = [t \in Runners |-> 0]
    /\ samples = [t \in Runners |-> {}]
    /\ left = [t \in Runners |-> {}]
    /\ noted = [t \in Runners |-> {}]

From(t, from, to) == step[t] = from /\ step' = [step EXCEPT ![t] = to]

\* The call ends.
Leave(t) ==
    /\ step' = [step EXCEPT ![t] = "idle"]
    /\ row' = [row EXCEPT ![t] = 0]
    /\ data' = [data EXCEPT ![t] = NoData]
    /\ number' = [number EXCEPT ![t] = 0]
    /\ samples' = [samples EXCEPT ![t] = {}]
    /\ left' = [left EXCEPT ![t] = {}]
    /\ noted' = [noted EXCEPT ![t] = {}]

-----------------------------------------------------------------------------
(* Opening a cycle: _new_cycle.                                            *)

\* Bound: a call begins only while a row is left for it.
RoomForCycle ==
    Len(cycles) + Cardinality({t \in Runners : step[t] \in {"number", "open"}}) < MaxCycles

RunTraining(t, extra) ==
    /\ production /\ RoomForCycle
    /\ From(t, "idle", "number")
    /\ samples' = [samples EXCEPT ![t] = extra]
    /\ data' = [data EXCEPT ![t] = <<"collected", 0>>]
    /\ UNCHANGED <<tableVars, row, number, left, noted>>

BootstrapTraining(t) ==
    /\ ~production /\ RoomForCycle
    /\ From(t, "idle", "number")
    /\ samples' = [samples EXCEPT ![t] = SeedData]
    /\ data' = [data EXCEPT ![t] = <<"seed", 1>>]
    /\ UNCHANGED <<tableVars, row, number, left, noted>>

ReadCycleNumber(t) ==
    /\ From(t, "number", "open")
    /\ number' = [number EXCEPT ![t] = NextNumber({cycles[i].no : i \in DOMAIN cycles})]
    /\ UNCHANGED <<tableVars, row, data, samples, left, noted>>

\* cycle_no has no UNIQUE: two cycles may take the same number.
OpenCycle(t) ==
    /\ From(t, "open", IF data[t][1] = "seed" THEN "seed" ELSE "collect")
    /\ cycles' = Append(cycles, [no |-> number[t], status |-> "running"])
    /\ row' = [row EXCEPT ![t] = Len(cycles) + 1]
    /\ UNCHANGED <<datasets, approved, models, production, data, number, samples, left, noted>>

-----------------------------------------------------------------------------
(* Its data.                                                               *)

\* _bootstrap_seed_model looks for the seed data set ...
FindSeed(t) ==
    /\ From(t, "seed", IF <<"seed", 1>> \in DOMAIN datasets THEN "train" ELSE "store")
    /\ UNCHANGED <<tableVars, cycleVars>>

\* collect_new_data, behind the samples of the request. LIMIT 100: of a longer
\* table only the newest rows.
Collect(t) ==
    /\ From(t, "collect", "clean")
    /\ \E newest \in SUBSET approved :
        /\ approved # {} => newest # {}
        /\ samples' = [samples EXCEPT ![t] = @ \cup newest]
    /\ left' = [left EXCEPT ![t] = samples'[t]]
    /\ UNCHANGED <<tableVars, row, data, number, noted>>

\* clean_and_version_dataset: of the samples with one text the first one counts, and
\* it does although it may be Poor. A sample that is kept is inserted by itself.
CleanOne(t) ==
    /\ step[t] = "clean"
    /\ \E s \in left[t] :
        LET new == {s} \ (Refused \cup {k \in Samples : Text[k] \in Texts(noted[t])})
        IN  /\ left' = [left EXCEPT ![t] = @ \ {s}]
            /\ noted' = [noted EXCEPT ![t] = @ \cup new]
            /\ approved' = approved \cup Usable(new)
    /\ UNCHANGED <<cycles, datasets, models, production, row, data, number, samples, step>>

\* No usable new data: the cycle fails.
NothingUsable(t) ==
    /\ step[t] = "clean" /\ left[t] = {} /\ Usable(noted[t]) = {}
    /\ cycles' = [cycles EXCEPT ![row[t]].status = "failed"]
    /\ Leave(t)
    /\ UNCHANGED <<datasets, approved, models, production>>

ReadVersion(t) ==
    /\ left[t] = {} /\ Usable(noted[t]) # {}
    /\ From(t, "clean", "store")
    /\ number' = [number EXCEPT ![t] = NextNumber(Versions)]
    /\ data' = [data EXCEPT ![t] = <<"collected", number'[t]>>]
    /\ UNCHANGED <<tableVars, row, samples, left, noted>>

\* SEED_DATA is stored as it is, the samples of a cycle as they were cleaned.
Cleaned(t) == IF data[t][1] = "seed" THEN samples[t] ELSE Usable(noted[t])

\* Variant of StoreDataset: INSERT OR REPLACE.
ReplaceDataset(t) ==
    /\ From(t, "store", "train")
    /\ datasets' = [key \in DOMAIN datasets \cup {data[t]} |->
                    IF key = data[t] THEN Cleaned(t) ELSE datasets[key]]
    /\ UNCHANGED <<cycles, approved, models, production, cycleVars>>

\* UNIQUE(name, version): the slower of two threads raises (TrainingRaises).
StoreDataset(t) ==
    /\ data[t] \notin DOMAIN datasets
    /\ From(t, "store", "train")
    /\ datasets' = [key \in DOMAIN datasets \cup {data[t]} |->
                    IF key = data[t] THEN Cleaned(t) ELSE datasets[key]]
    /\ UNCHANGED <<cycles, approved, models, production, cycleVars>>

-----------------------------------------------------------------------------
(* train_candidate, and the verdict.                                       *)

\* The candidate is trained on `samples`, not on what was kept of them, and on a
\* replay: random samples of all the data sets stored by now (mixed_batch). Its
\* row names the version of the cycle's own data set.
TrainAndRegister(t) ==
    /\ From(t, "train", "verdict")
    /\ \E replay \in SUBSET Stored :
        models' = Append(models, [data |-> data[t], fresh |-> samples[t],
                                  batch |-> samples[t] \cup replay])
    /\ UNCHANGED <<cycles, datasets, approved, production, cycleVars>>

\* A bootstrap adopts its model; its status in the registry is Promotion's.
AdoptSeed(t) ==
    /\ data[t][1] = "seed"
    /\ From(t, "verdict", "adopted")
    /\ production' = TRUE
    /\ UNCHANGED <<cycles, datasets, approved, models, cycleVars>>

\* _finish_cycle, for each of the two verdicts of compare_models.
FinishCycle(t) ==
    /\ \/ step[t] = "adopted" /\ cycles' = [cycles EXCEPT ![row[t]].status = "deployed"]
       \/ /\ step[t] = "verdict" /\ data[t][1] = "collected"
          /\ \E s \in {"deployed", "rejected"} : cycles' = [cycles EXCEPT ![row[t]].status = s]
    /\ Leave(t)
    /\ UNCHANGED <<datasets, approved, models, production>>

\* The INSERT of a version that is taken raises, and so may the evaluations, and
\* the budget before training and after it. Nothing gives the row another status:
\* it stays 'running'.
TrainingRaises(t) ==
    /\ \/ step[t] = "store" /\ data[t] \in DOMAIN datasets
       \/ step[t] \in {"train", "verdict"}
    /\ Leave(t)
    /\ UNCHANGED tableVars

-----------------------------------------------------------------------------
\* adopt_model and rollback, which archive the current row before they promote
\* the next one: chat and run_cycle may read the registry in between.
SwapShows ==
    /\ models # << >>
    /\ production' = ~production
    /\ UNCHANGED <<cycles, datasets, approved, models, cycleVars, step>>

\* The process ends: rows that are committed stay, 'running' ones too.
TrainingCrash ==
    /\ step' = [t \in Runners |-> "idle"]
    /\ row' = [t \in Runners |-> 0]
    /\ data' = [t \in Runners |-> NoData]
    /\ number' = [t \in Runners |-> 0]
    /\ samples' = [t \in Runners |-> {}]
    /\ left' = [t \in Runners |-> {}]
    /\ noted' = [t \in Runners |-> {}]
    /\ UNCHANGED tableVars

CycleStep(t) ==
    \/ \E extra \in Extras : RunTraining(t, extra)
    \/ BootstrapTraining(t) \/ ReadCycleNumber(t) \/ OpenCycle(t)
    \/ FindSeed(t) \/ Collect(t) \/ CleanOne(t) \/ NothingUsable(t)
    \/ ReadVersion(t) \/ StoreDataset(t)
    \/ TrainAndRegister(t) \/ AdoptSeed(t) \/ FinishCycle(t) \/ TrainingRaises(t)

TrainingNext == TrainingCrash \/ SwapShows \/ \E t \in Runners : CycleStep(t)

TrainingSpec == TrainingInit /\ [][TrainingNext]_trainingVars

-----------------------------------------------------------------------------
DataNames == ({"seed", "collected"} \X Nat) \cup {NoData}

TrainingTypeOK ==
    /\ cycles \in Seq([no : Nat, status : {"running", "failed", "deployed", "rejected"}])
    /\ \A key \in DOMAIN datasets : key \in DataNames /\ datasets[key] \subseteq Samples
    /\ approved \subseteq Usable(Samples)
    /\ models \in Seq([data : DataNames, fresh : SUBSET Samples, batch : SUBSET Samples])
    /\ production \in BOOLEAN
    /\ step \in [Runners -> TrainingLabels]
    /\ row \in [Runners -> Nat]
    /\ data \in [Runners -> DataNames]
    /\ number \in [Runners -> Nat]
    /\ samples \in [Runners -> SUBSET Samples]
    /\ left \in [Runners -> SUBSET Samples]
    /\ noted \in [Runners -> SUBSET Samples]

\* Whichever cycles overlap, raise or die, the data set a model's row names is the
\* one its own cycle has stored: nothing is in it that was not among the new
\* samples, and every usable text of these is, unless a poor sample brought the
\* same text first. And whatever usable text a model has learned, its own or
\* replayed, the stored data sets still hold for the replay of the next ones
\* (anti_forgetting.py: "keeps samples from every dataset version ever trained on").
VersionNamesData ==
    \A i \in DOMAIN models :
        LET m == models[i]
            poor == m.fresh \cap Poor
        IN  /\ m.data \in DOMAIN datasets
            /\ datasets[m.data] \subseteq Usable(m.fresh)
            /\ Texts(Usable(m.fresh)) \subseteq Texts(datasets[m.data] \cup poor)
            /\ Texts(Usable(m.batch)) \subseteq Texts(Stored \cup poor)
=============================================================================
