--------------------------- MODULE MC_MlModelStore ---------------------------
(***************************************************************************)
(* Bundles for MlModelStore: two feature keys K1, K2, weights -1 and 2.    *)
(***************************************************************************)
EXTENDS MlModelStore, TLC

MCKeys == {"K1", "K2"}
MCWeights == {-1, 2}

(* Key arrays of up to two distinct keys, possibly with an unreadable     *)
(* entry.                                                                  *)
KeyArrays ==
    { a \in BoundedSeq(MCKeys \cup {NotAString}, 2) :
        \A m, n \in DOMAIN a : m # n /\ a[m] # NotAString => a[m] # a[n] }

(* Well-formed bundles have as many values as keys; a bundle, or either   *)
(* table of it, may be missing.                                            *)
WellFormed ==
    UNION { { [keys |-> a, values |-> v] :
                v \in { v \in BoundedSeq(MCWeights, 2) : Len(v) = Len(a) } } :
            a \in KeyArrays }

MCResources ==
    WellFormed \cup {Missing}
    \cup { [keys |-> <<"K1">>, values |-> Missing], [keys |-> Missing, values |-> <<2>>] }

(* Bundles with fewer modelValues than modelKeys: the loop reads past the *)
(* end of the int vector.                                                   *)
MismatchedResources ==
    UNION { { [keys |-> a, values |-> v] :
                v \in { v \in BoundedSeq(MCWeights, 2) : Len(v) < Len(a) } } :
            a \in { a \in KeyArrays : NotAString \notin ToSet(a) } }
(* Bundles whose modelKeys repeat a key.                                  *)
DuplicateKeyResources ==
    { [keys |-> <<"K1", "K1">>, values |-> v] :
        v \in { v \in BoundedSeq(MCWeights, 2) : Len(v) = 2 } }
=============================================================================
