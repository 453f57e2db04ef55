----------------------------- MODULE EvaluationGate -----------------------------
(***************************************************************************)
(* What the adoption gate protects: compare_models and full_eval of        *)
(* src/backend/app/evaluation/engine.py, between the models run_cycle      *)
(* compares and those adopt_model and rollback put into production.  Here  *)
(* a swap is one step; Promotion has its statements, and the gap between   *)
(* two of them, in which chat and run_cycle see no current model.          *)
(*                                                                         *)
(* A report says how many cases of each suite a model passes.  The answers *)
(* also depend on the knowledge base and on the language model in memory:  *)
(* `settled` says that these have not changed, so that a model passes the  *)
(* same cases each time it is evaluated.                                   *)
(***************************************************************************)
EXTENDS Integers, FiniteSets, FiniteSetsExt

CONSTANTS
    Suites,     \* CORE_SUITES
    Safety,     \* the safety suite
    Cases,      \* how many cases each suite has: 1 to 5
    LastModel,  \* bound: models are numbered from 0, the first seed, as they are trained
    Trainers    \* the threads that run cycles or bootstrap

ASSUME SuitesAssumption ==
    /\ Safety \in Suites
    /\ Cases \in [Suites -> 1..49]
    /\ LastModel \in Nat

VARIABLES
    passed,     \* the report of each model that has been trained
    current, best,  \* the rows with status 'current' and 'best_historical', NoOne if none
    base,       \* the model each thread took for current when its cycle began
    candidate,  \* the one it has trained since
    approvable, \* the candidates the owner is asked to adopt
    seeds,      \* history: the models a bootstrap has adopted
    adopted,    \* history: those, and the ones adopted by the gate and the owner
    settled,    \* history: what the answers depend on beside the model is unchanged
    astray      \* history: the owner rolled back to a model that was never adopted

gateVars ==
    <<passed, current, best, base, candidate, approvable, seeds, adopted, settled, astray>>

NoOne == -1
AllModels == 0..LastModel
Report == {r \in [Suites -> UNION {0..Cases[s] : s \in Suites}] :
              \A s \in Suites : r[s] <= Cases[s]}
Trained == DOMAIN passed

\* The score of a suite and `overall`, in ten-thousandths.
Score(r, s) == (r[s] * 10000) \div Cases[s]
Overall(r) == MapThenSumSet(LAMBDA s : Score(r, s), Suites) \div Cardinality(Suites)

\* A drop of more than MAX_ALLOWED_REGRESSION = 0.02 on some suite.
Regresses(cand, other) == \E s \in Suites : (other[s] - cand[s]) * 100 > 2 * Cases[s]

\* compare_models: MIN_SAFETY_SCORE = 0.95, MIN_IMPROVEMENT_TO_ADOPT = 0.01, and
\* 0.05 for each new intent in the gain.
Adopts(cur, cand, others, newIntents) ==
    LET rise == Overall(cand) - Overall(cur)
        gain == (IF rise > 0 THEN rise ELSE 0) + 500 * newIntents
    IN  /\ ~Regresses(cand, cur)
        /\ \A other \in others : ~Regresses(cand, other)
        /\ cand[Safety] * 100 >= 95 * Cases[Safety]
        /\ gain >= 100

\* A seed is adopted whatever its report says.
GateInit ==
    /\ passed \in [{0} -> Report]
    /\ current = 0 /\ best = NoOne
    /\ base = [t \in Trainers |-> NoOne]
    /\ candidate = [t \in Trainers |-> NoOne]
    /\ approvable = {} /\ seeds = {0} /\ adopted = {0}
    /\ settled = TRUE /\ astray = FALSE

\* run_cycle begins with what is current then.
BeginCycle(t) ==
    /\ base[t] = NoOne /\ candidate[t] = NoOne
    /\ base' = [base EXCEPT ![t] = current]
    /\ UNCHANGED <<passed, current, best, candidate, approvable, seeds, adopted, settled, astray>>

\* The model trained next, with whatever report.
Train(t) ==
    \E m \in AllModels \ Trained, r \in Report :
        /\ \A k \in AllModels \ Trained : m <= k
        /\ passed' = [k \in Trained \cup {m} |-> IF k = m THEN r ELSE passed[k]]
        /\ candidate' = [candidate EXCEPT ![t] = m]

TrainCandidate(t) ==
    /\ base[t] # NoOne /\ candidate[t] = NoOne
    /\ Train(t)
    /\ UNCHANGED <<current, best, base, approvable, seeds, adopted, settled, astray>>

\* chat and run_cycle that find no current row train another seed.
TrainSeed(t) ==
    /\ base[t] = NoOne /\ candidate[t] = NoOne
    /\ Train(t)
    /\ UNCHANGED <<current, best, base, approvable, seeds, adopted, settled, astray>>

EndCycle(t) ==
    /\ base' = [base EXCEPT ![t] = NoOne]
    /\ candidate' = [candidate EXCEPT ![t] = NoOne]

\* Variant of Verdict: a candidate is compared with the best model only.
VerdictByBest(t) ==
    LET cand == passed[candidate[t]]
        others == {passed[m] : m \in {best} \ {NoOne}}
    IN  /\ base[t] # NoOne /\ candidate[t] # NoOne
        /\ \E new \in {0, 1}, adopt \in BOOLEAN :
            /\ settled => adopt = Adopts(cand, cand, others, new)
            /\ approvable' = approvable \cup {m \in {candidate[t]} : adopt}
        /\ EndCycle(t)
        /\ UNCHANGED <<passed, current, best, seeds, adopted, settled, astray>>

\* The best historical model is the one of this moment, the current one of before.
Verdict(t) ==
    LET cand == passed[candidate[t]]
        others == {passed[m] : m \in {best} \ {NoOne}}
    IN  /\ base[t] # NoOne /\ candidate[t] # NoOne
        /\ \E new \in {0, 1}, adopt \in BOOLEAN :
            /\ settled => adopt = Adopts(passed[base[t]], cand, others, new)
            /\ approvable' = approvable \cup {m \in {candidate[t]} : adopt}
        /\ EndCycle(t)
        /\ UNCHANGED <<passed, current, best, seeds, adopted, settled, astray>>

\* adopt_model: max() takes the old best model when the two are equal.
AdoptModel(m) ==
    LET heir == IF best # NoOne /\ Overall(passed[best]) >= Overall(passed[current])
                THEN best ELSE current
    IN  /\ current' = m
        /\ best' = IF heir = m THEN NoOne ELSE heir
        /\ adopted' = adopted \cup {m}

\* For an approval nothing is compared again.
Adopt(m) ==
    /\ m \in approvable
    /\ AdoptModel(m)
    /\ UNCHANGED <<passed, base, candidate, approvable, seeds, settled, astray>>

\* For a seed nothing is compared at all, whatever is in production by now.
AdoptSeedOf(t) ==
    /\ base[t] = NoOne /\ candidate[t] # NoOne
    /\ AdoptModel(candidate[t])
    /\ seeds' = seeds \cup {candidate[t]}
    /\ EndCycle(t)
    /\ UNCHANGED <<passed, approvable, settled, astray>>

\* rollback, to any model: the old current model is archived.
RollbackTo(m) ==
    /\ m \in Trained
    /\ current' = m
    /\ best' = IF best = m THEN NoOne ELSE best
    /\ astray' = (astray \/ m \notin adopted)
    /\ UNCHANGED <<passed, base, candidate, approvable, seeds, adopted, settled>>

\* Knowledge is added, or a language model loaded, which answers before the
\* candidate does.
WorldChanges ==
    /\ settled' = FALSE
    /\ UNCHANGED <<passed, current, best, base, candidate, approvable, seeds, adopted, astray>>

CycleRaisesAnywhere(t) ==
    /\ base[t] # NoOne \/ candidate[t] # NoOne
    /\ EndCycle(t)
    /\ UNCHANGED <<passed, current, best, approvable, seeds, adopted, settled, astray>>

GateNext ==
    \/ WorldChanges
    \/ \E t \in Trainers :
        \/ BeginCycle(t) \/ TrainCandidate(t) \/ Verdict(t) \/ CycleRaisesAnywhere(t)
        \/ TrainSeed(t) \/ AdoptSeedOf(t)
    \/ \E m \in AllModels : Adopt(m) \/ RollbackTo(m)

GateSpec == GateInit /\ [][GateNext]_gateVars

-----------------------------------------------------------------------------
GateTypeOK ==
    /\ Trained \subseteq AllModels /\ \A m \in Trained : passed[m] \in Report
    /\ current \in Trained /\ best \in Trained \cup {NoOne}
    /\ base \in [Trainers -> Trained \cup {NoOne}]
    /\ candidate \in [Trainers -> Trained \cup {NoOne}]
    /\ approvable \subseteq Trained /\ seeds \subseteq adopted /\ adopted \subseteq Trained
    /\ settled \in BOOLEAN /\ astray \in BOOLEAN

\* However many candidates were adopted one after the other, and with whatever
\* model another cycle or another bootstrap had put into production meanwhile: the
\* model in production passes, suite by suite, every case count that some adopted
\* seed passed. The tolerance of two per cent does not add up, for it is less than
\* one case; only the adoption of a further seed can take anything away.
NeverForgets ==
    settled /\ ~astray =>
        \E z \in seeds : \A s \in Suites : passed[current][s] >= passed[z][s]
=============================================================================
