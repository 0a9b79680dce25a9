------------------------- MODULE MCKubernetesAgent -------------------------
(***************************************************************************)
(* The TLC instances of KubernetesAgent: two names, one the start of the   *)
(* other; a machine ID that is not populated, is shared, or continues the  *)
(* shorter name to the longer; system UUIDs of two lengths, one of them    *)
(* the end of another, so that both pairs of neighbours can shift.         *)
(***************************************************************************)
EXTENDS KubernetesAgent

MCNames == {<<"a">>, <<"a", "b">>}
MCMachineIDs == {<<>>, <<"b">>}
MCSystemUUIDs == {<<"b">>, <<"c">>, <<"b", "c">>}

\* A node before and after the cloud provider has seen it.
MCDetails ==
  {[os |-> <<>>, providerID |-> << <<>> >>,
    addresses |-> << >>, capacity |-> <<>>],
   [os |-> <<"l">>, providerID |-> << <<"p">>, <<"i">> >>,
    addresses |-> << [type |-> "InternalIP", address |-> <<"1">>],
                     [type |-> "ExternalIP", address |-> <<"2">>],
                     [type |-> "ExternalIP", address |-> <<"3">>] >>,
    capacity |-> [r \in {1, 2} |-> r]]}

=============================================================================
