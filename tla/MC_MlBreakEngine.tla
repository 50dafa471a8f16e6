-------------------------- MODULE MC_MlBreakEngine --------------------------
(***************************************************************************)
(* Model values and bounds for MlBreakEngine.  Three code points stand for *)
(* the text's characters: "a", a BMP character that is closing            *)
(* punctuation; "S", a supplementary character (two UTF-16 units) that is *)
(* a letter; "b", a BMP character in neither class (such as U+3002).     *)
(* "|" is u'|', the code's INVALID.                                       *)
(***************************************************************************)
EXTENDS MlBreakEngine, TLC

MCSupplementary == {"S"}
MCClosePunctuationSet == {"a"}
MCDigitOrOpenPunctuationOrAlphabetSet == {"S"}

(* Subjects of one to MaxLength code points.                               *)
MCSubjects(A, MaxLength) == { s \in BoundedSeq(A, MaxLength) : Len(s) >= 1 }

(* Model stores: empty; one unigram on the character after the candidate; *)
(* unigram, bigram and trigram weights that need left context (slots 1-3);*)
(* a bigram on a b after the candidate; weights on the far right slots     *)
(* (5, 6) that only a slid window fills.                                   *)
MCModels ==
    { [k \in {} |-> 0],
      <<"UW4", <<"a">>>> :> 1,
      (<<"UW4", <<"a">>>> :> 2) @@ (<<"BW2", <<"S", "a">>>> :> -1)
          @@ (<<"TW1", <<"a", "a", "S">>>> :> 1) @@ (<<"BW3", <<"a", "b">>>> :> 1),
      (<<"UW6", <<"S">>>> :> 1) @@ (<<"TW4", <<"a", "a", "S">>>> :> 1)
          @@ (<<"UW5", <<"a">>>> :> -1) }
(* Every subject over {a, S} up to the window's width, and every subject  *)
(* over all three code points up to five.                                  *)
ScanSubjects == MCSubjects({"a", "S"}, 6) \cup MCSubjects({"a", "S", "b"}, 5)
NormalizedSubjects == MCSubjects({"a", "S"}, 4)

(* Two weights of 2^(Int32Bits-2) (2^30 in an int32_t) on features the    *)
(* same candidate matches: the bias -2^(Int32Bits-1) is still in range,   *)
(* the score 2^(Int32Bits-1) at that candidate is not.                    *)
OverflowModels ==
    LET w == 2^(Int32Bits - 2)
    IN  { (<<"UW3", <<"a">>>> :> w) @@ (<<"UW4", <<"a">>>> :> w) }
OverflowSubjects == MCSubjects({"a", "S"}, 3)

(* Subjects that may hold u'|' itself, the character INVALID stands for. *)
BarSubjects == MCSubjects({"a", "|"}, 6)
=============================================================================
