---------------------------- MODULE MCWebStores ----------------------------
(***************************************************************************)
(* Small instances of WebStores.  The index and the provider configuration *)
(* share no variable, so a behaviour here exercises one of them: TLC adds  *)
(* up their states and does not multiply them.                             *)
(***************************************************************************)
EXTENDS WebStores, TLC

VARIABLE part

MCInit == Init /\ part \in {"captures", "providers"}

MCNext ==
    /\ \/ part = "captures" /\ CaptureNext
       \/ part = "providers" /\ ProviderNext
       \/ Crash
    /\ UNCHANGED part

MCSpec == MCInit /\ [][MCNext]_<<vars, part>>

StoreSymmetry ==
    Permutations(Conversations) \cup Permutations(Deleters) \cup Permutations(Savers)
        \cup Permutations(Urls) \cup Permutations(Keys)

=============================================================================
