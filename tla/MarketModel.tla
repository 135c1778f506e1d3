------------------------------ MODULE MarketModel ------------------------------
(***************************************************************************)
(* What the constructor of MarketModel accepts.  A model is a record of    *)
(* four members: symbols, prices and mean_log_returns are sequences,       *)
(* covariance is the sequence of its rows.  The Cholesky decomposition is  *)
(* Eigen's; here it is a predicate on the matrix, which the constructors   *)
(* of MarketModel and of the generator evaluate on the same matrix.        *)
(***************************************************************************)
EXTENDS Domain

CONSTANTS
    Precision,          \* the reciprocal of the relative tolerance, 10^12
    Decomposable(_)     \* LLT of the matrix succeeds

ASSUME PrecisionAssumption == Precision \in Nat \ {0}

Magnitude(x) == IF x < 0 THEN -x ELSE x

\* validateSymbols
ValidSymbols(symbols) ==
    /\ symbols # <<>>
    /\ \A i \in DOMAIN symbols : symbols[i] # Blank
    /\ \A i, j \in DOMAIN symbols : symbols[i] = symbols[j] => i = j

\* validateDimensions
ValidDimensions(m) ==
    LET asset_count == Len(m.symbols)
    IN  /\ Len(m.prices) = asset_count
        /\ Len(m.mean_log_returns) = asset_count
        /\ Len(m.covariance) = asset_count
        /\ \A row \in DOMAIN m.covariance : Len(m.covariance[row]) = asset_count

\* The asymmetry is within the tolerance, relative to the largest entry but
\* not to less than 1.
Symmetric(matrix) ==
    LET entries == {Magnitude(matrix[i][j]) : i \in DOMAIN matrix, j \in DOMAIN matrix}
    IN  \A i, j \in DOMAIN matrix :
            \E scale \in entries \cup {1} :
                Magnitude(matrix[i][j] - matrix[j][i]) * Precision <= scale

\* Mutant of ValidValues: prices may be negative.
ValidValuesAnyPrice(m) ==
    /\ \A i \in DOMAIN m.prices : IsFinite(m.prices[i])
    /\ \A i \in DOMAIN m.mean_log_returns : IsFinite(m.mean_log_returns[i])
    /\ \A i, j \in DOMAIN m.covariance : IsFinite(m.covariance[i][j])
    /\ Symmetric(m.covariance)
    /\ Decomposable(m.covariance)

\* validateValues
ValidValues(m) ==
    /\ \A i \in DOMAIN m.prices : IsFinite(m.prices[i]) /\ m.prices[i] > 0
    /\ \A i \in DOMAIN m.mean_log_returns : IsFinite(m.mean_log_returns[i])
    /\ \A i, j \in DOMAIN m.covariance : IsFinite(m.covariance[i][j])
    /\ Symmetric(m.covariance)
    /\ Decomposable(m.covariance)

\* MarketModel::MarketModel
ValidModel(m) ==
    ValidSymbols(m.symbols) /\ ValidDimensions(m) /\ ValidValues(m)
================================================================================
