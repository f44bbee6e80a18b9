-------------------------------- MODULE MCRules --------------------------------
(***************************************************************************)
(* Both instances in one run: every sample beside one query, and every     *)
(* query beside one sample, as they have nothing to do with each other.    *)
(* Every behaviour is one of SamplesSpec and one of QueriesSpec.           *)
(***************************************************************************)
EXTENDS MCDomainRules, MCAirportQueries

RulesInit ==
    \/ /\ SamplesInit
       /\ text = <<>>
       /\ rows = <<CHOOSE airport \in Catalogue : TRUE>>
    \/ /\ QueriesInit
       /\ sample = Sample(Watch, <<>>, <<>>, Unset)
RulesNext == SamplesNext /\ QueriesNext
RulesSpec == RulesInit /\ [][RulesNext]_<<sample, asked>>
=============================================================================
