------------------------------ MODULE MCTSDict ------------------------------
(***************************************************************************)
(* Two objects, three constructions and a dictionary in which traditional  *)
(* words share a chain and a simplified one stands for two of them.        *)
(***************************************************************************)
EXTENDS TSDict

MCWords == {"T1", "T2", "T3", "S1", "S2"}
MCHash == [T1 |-> 1, T2 |-> 1, T3 |-> 2, S1 |-> 2, S2 |-> 1]
MCDictionary == << <<"T1", "S1">>, <<"T2", "S1">>, <<"S2", "S2">>, <<"T1", "S2">> >>
=============================================================================
