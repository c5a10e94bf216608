-------------------------- MODULE NestingDecision --------------------------
(***************************************************************************)
(* Which pokemon nests in a nest, from the totals of its history: the      *)
(* summary of GetSummaryForNest is sorted, and processTimePeriodSummary    *)
(* takes the first entry, of the first few, that passes every test.        *)
(*                                                                         *)
(* The map of counts is read in any order, and sort.Sort is not stable:    *)
(* entries that tie come in any order.  Percentages are compared by        *)
(* multiplying crosswise, without the rounding of floats.                  *)
(***************************************************************************)
EXTENDS Naturals, Sequences, FiniteSets, Functions, SequencesExt

CONSTANTS
    PokemonKey,  \* the pokemon ever seen
    Counts,      \* how often one may be seen in the nest
    Elsewhere,   \* how often one may be seen outside of it
    Configs,     \* configurations: the thresholds of the processor
    Durations,   \* lengths of the history
    MaxRank      \* how many entries are looked at: 10 in the code

Threshold == {"MinNestPokemonPct", "MinNestPctToGlobalPctRatio", "MaxGlobalSpawnPct",
              "MinTotalPokemon", "MinNestPokemon", "MinHistoryDuration"}

NoPokemon == "no pokemon"

ASSUME DecisionAssumption ==
    /\ IsFiniteSet(PokemonKey) /\ NoPokemon \notin PokemonKey
    /\ Counts \subseteq Nat /\ Elsewhere \subseteq Nat /\ Durations \subseteq Nat
    /\ Configs \subseteq [Threshold -> Nat]
    /\ MaxRank \in Nat

VARIABLES
    config,    \* the configuration
    duration,  \* the length of the history
    count,     \* sightings in the nest, per pokemon
    global,    \* sightings everywhere, per pokemon
    summary,   \* PokemonCountsAndTotals: the pokemon, sorted
    idx,       \* the number of entries looked at, once they are sorted
    nesting    \* nestingPokemonInfo: the pokemon found

input == <<config, duration, count, global>>
decisionVars == <<config, duration, count, global, summary, idx, nesting>>

Unsorted == MaxRank + 1

Seen == {p \in PokemonKey : count[p] > 0}
Total == SumFunction(count)
GlobalTotal == SumFunction(global)

\* Every sighting in the nest is one of the global ones too.
DecisionInit ==
    /\ config \in Configs
    /\ duration \in Durations
    /\ count \in [PokemonKey -> Counts]
    /\ \E elsewhere \in [PokemonKey -> Elsewhere] :
          global = [p \in PokemonKey |-> count[p] + elsewhere[p]]
    /\ Seen # {}
    /\ summary = <<>>
    /\ idx = Unsorted
    /\ nesting = NoPokemon

\* Less: by Count, the greatest first, then by Global, the least first.
Less(p, q) ==
    \/ count[p] > count[q]
    \/ count[p] = count[q] /\ global[p] < global[q]

\* sort.Sort, from any order.
GetSummaryForNest ==
    /\ idx = Unsorted
    /\ \E sorted \in SetToSeqs(Seen) :
          /\ \A i, j \in DOMAIN sorted : i < j => ~Less(sorted[j], sorted[i])
          /\ summary' = sorted
    /\ idx' = 0
    /\ UNCHANGED <<input, nesting>>

\* logPokemonAndComputeNesting: the tests an entry has to pass.
IsNesting(p) ==
    /\ 100 * count[p] >= config["MinNestPokemonPct"] * Total
    /\ count[p] * GlobalTotal >= global[p] * Total
    /\ count[p] * GlobalTotal >= config["MinNestPctToGlobalPctRatio"] * global[p] * Total
    /\ \/ config["MaxGlobalSpawnPct"] = 0
       \/ 100 * global[p] <= config["MaxGlobalSpawnPct"] * GlobalTotal
    /\ Total >= config["MinTotalPokemon"]
    /\ count[p] >= config["MinNestPokemon"]
    /\ duration >= config["MinHistoryDuration"]

\* Mutant: the last entry that passes is taken.
NextPokemonTakesLast ==
    /\ idx < Len(summary) /\ idx < MaxRank
    /\ idx' = idx + 1
    /\ nesting' = IF IsNesting(summary[idx + 1]) THEN summary[idx + 1] ELSE nesting
    /\ UNCHANGED <<input, summary>>

\* One turn of processTimePeriodSummary's loop: once a pokemon is found, the
\* rest is only logged.
NextPokemon ==
    /\ idx < Len(summary) /\ idx < MaxRank
    /\ idx' = idx + 1
    /\ nesting' = IF nesting = NoPokemon /\ IsNesting(summary[idx + 1])
                  THEN summary[idx + 1] ELSE nesting
    /\ UNCHANGED <<input, summary>>

DecisionNext == GetSummaryForNest \/ NextPokemon

DecisionSpec == DecisionInit /\ [][DecisionNext]_decisionVars

-----------------------------------------------------------------------------
(* Correctness.                                                             *)

Decided == idx # Unsorted /\ (idx = Len(summary) \/ idx = MaxRank)

\* p may come, or must come, among the entries that are looked at.
MayRank(p) == Cardinality({q \in Seen : Less(q, p)}) < MaxRank
MustRank(p) == Cardinality({q \in Seen \ {p} : ~Less(p, q)}) < MaxRank

\* The decision depends on the counts alone, not on the order of a map, but for
\* ties: of the pokemon that pass the tests and rank high enough it is one that
\* no other comes before, and there is none only if there is no such pokemon.
DecisionIsBest ==
    Decided =>
        LET passing == {p \in Seen : IsNesting(p) /\ MustRank(p)}
        IN  IF nesting = NoPokemon THEN passing = {}
            ELSE /\ IsNesting(nesting) /\ MayRank(nesting)
                 /\ \A p \in passing : ~Less(p, nesting)

=============================================================================
