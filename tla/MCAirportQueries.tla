--------------------------- MODULE MCAirportQueries ---------------------------
(***************************************************************************)
(* A small instance of AirportQueries: datasets of up to four airports out *)
(* of five, and queries of up to three letters.                            *)
(***************************************************************************)
EXTENDS AirportQueries

(* Code points: space, the separators, A and B in both cases, an accented  *)
(* a in both cases, and the accent by itself, a combining mark.            *)
MCChars == {32, 45, 47, 65, 66, 97, 98, 193, 225, 769}
MCCapitals == {65, 66}
MCFold == [x \in MCChars |->
    CASE x \in {65, 193, 225} -> <<97>>
      [] x = 66 -> <<98>>
      [] x = 769 -> <<>>
      [] OTHER -> <<x>>]
MCUpperChar == [x \in MCChars |->
    IF x = 97 THEN 65 ELSE IF x = 98 THEN 66 ELSE IF x = 225 THEN 193 ELSE x]

Airport(iata, city, name, type, scheduled) ==
    [iata |-> iata, city |-> city, name |-> name, type |-> type, scheduled |-> scheduled]
(* Two hubs of one city, a strip of that city, an accented city whose name *)
(* holds another's, two rows with one code, a code that is a city's start. *)
Catalogue ==
    {Airport(<<65, 65>>, <<66, 97>>, <<97>>, "large_airport", TRUE),
     Airport(<<65, 66>>, <<66, 97>>, <<98, 45, 97>>, "large_airport", TRUE),
     Airport(<<66, 65>>, <<66, 97>>, <<66>>, "small_airport", FALSE),
     Airport(<<66, 66>>, <<193, 32, 98>>, <<66, 97, 47, 225>>, "medium_airport", TRUE),
     Airport(<<66, 66>>, <<193>>, <<98>>, "large_airport", TRUE)}
MCDatasets == UNION {{s \in [1 .. n -> Catalogue] : \A i, j \in 1 .. n : s[i] = s[j] => i = j} :
                      n \in 1 .. 4}
MCQueries == BoundedSeq({32, 65, 97, 98}, 2) \cup
    {<<98, 97, 97>>, <<225, 32, 98>>, <<32, 97, 98>>, <<65, 98, 32>>, <<98, 45, 97>>,
     <<769>>, <<769, 98>>, <<97, 769>>, <<66, 769, 97>>, <<32, 769, 97>>}
=============================================================================
