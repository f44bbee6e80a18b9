---------------------------- MODULE MCAirportPicker ----------------------------
(***************************************************************************)
(* A small instance of AirportPicker: two hubs and a strip, of which one   *)
(* hub is excluded, two of which may be chosen, and an answer holds two;   *)
(* a blank text, and texts that begin with a combining mark: by itself it  *)
(* finds nothing, with one letter it finds all three, with two letters two.*)
(***************************************************************************)
EXTENDS AirportPicker

MCChars == {32, 45, 47, 65, 66, 97, 98, 769}
MCCapitals == {65, 66}
MCFold == [x \in MCChars |->
    CASE x = 65 -> <<97>>
      [] x = 66 -> <<98>>
      [] x = 769 -> <<>>
      [] OTHER -> <<x>>]
MCUpperChar == [x \in MCChars |-> IF x = 97 THEN 65 ELSE IF x = 98 THEN 66 ELSE x]

Airport(iata, city, type, scheduled) ==
    [iata |-> iata, city |-> city, name |-> city, type |-> type, scheduled |-> scheduled]
MCAll ==
    <<Airport(<<65, 65>>, <<97, 98>>, "large_airport", TRUE),
      Airport(<<65, 66>>, <<97, 97>>, "large_airport", TRUE),
      Airport(<<66, 65>>, <<97, 98, 45, 98>>, "small_airport", FALSE)>>
MCPopular == CHOOSE p \in PopularLists(MCAll) : TRUE
MCTexts == {<<>>, <<32>>, <<769>>, <<769, 97>>, <<769, 97, 98>>}
MCExclude == {<<65, 66>>}
=============================================================================
