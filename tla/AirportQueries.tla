---------------------------- MODULE AirportQueries ----------------------------
(***************************************************************************)
(* What AirportSearch promises, whatever the dataset and the query.  A     *)
(* state is one of each; nothing moves.                                    *)
(***************************************************************************)
EXTENDS AirportSearch

CONSTANTS
    Datasets,   \* the datasets New may have read
    Queries     \* what may be typed, or asked about

ASSUME DatasetsAssumption ==
    \A d \in Datasets : IsDataset(d)
ASSUME QueriesAssumption == Queries \subseteq Seq(Chars)

VARIABLES
    rows,   \* the rows of the airport dataset
    text    \* a text typed into the airport picker, or a code to look up

asked == <<rows, text>>

QueriesInit == rows \in Datasets /\ text \in Queries
QueriesNext == UNCHANGED asked
QueriesSpec == QueriesInit /\ [][QueriesNext]_asked

-----------------------------------------------------------------------------
(* Properties *)

(* Every airport the server accepts in a subscription can be found by its  *)
(* code, in either case: it comes first however short the list is, before  *)
(* every city and name the code happens to begin (Search with Exists).     *)
ExactCodeFirst ==
    \A n \in 1 .. SearchLimit :
        Exists(rows, text) =>
            LET found == Search(rows, text, n)
            IN  found # <<>> /\ found[1].iata = ToUpper(text)

(* Typing one more letter never brings in an airport the shorter query did *)
(* not find (Search, all hits): suggestions only narrow while one types.   *)
(* A query of which fold leaves nothing finds nothing: there the typing    *)
(* begins.                                                                 *)
LongerQueryNarrows ==
    LET hits(q) == ToSet(Search(rows, q, Len(rows)))
    IN  \A n \in 1 .. Len(text) :
            LET shorter == SubSeq(text, 1, n)
            IN  Folded(TrimSpace(shorter)) # <<>> => hits(text) \subseteq hits(shorter)

(* The browse list does not depend on the order a Go map is walked in, nor *)
(* on the freedom of an unstable sort: every start of the process offers   *)
(* the same one (New), and every airport on it can be saved (Exists).      *)
PopularIsDetermined ==
    /\ Cardinality(PopularLists(rows)) = 1
    /\ \A popular \in PopularLists(rows) :
           \A i \in DOMAIN HandleSearchAirports(rows, popular, <<>>) :
               Exists(rows, HandleSearchAirports(rows, popular, <<>>)[i].iata)
=============================================================================
