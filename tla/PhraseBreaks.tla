---------------------------- MODULE PhraseBreaks ----------------------------
(***************************************************************************)
(* What one call of the ML phrase-break engine promises (spec.md, 4.2):    *)
(* the whole call is a single step that appends to the caller's break      *)
(* vector the phrase boundaries of the subject string, in the caller's     *)
(* text coordinates.  Written from the specification, not from the code:  *)
(* features are read directly off the text around each candidate index,   *)
(* internal boundaries collapsed to external positions as a set (one       *)
(* survivor per repeated external position), then the range-start and      *)
(* range-end corrections are applied.                                      *)
(***************************************************************************)
EXTENDS Integers, Sequences, SequencesExt, Functions

CONSTANTS
    INVALID,                               \* the window's "no character" slot value
    NoMap,                                 \* no position map: external = internal + rangeStart
    ClosePunctuationSet,
    DigitOrOpenPunctuationOrAlphabetSet

VARIABLES
    inString,     \* the subject string, a sequence of code points
    inputMap,     \* NoMap, or a function 0..Len(inString) -> text positions
    rangeStart,
    charBefore,   \* the text's code point at rangeStart - 1 (meaningless when rangeStart = 0)
    charAfter,    \* the text's code point at rangeEnd (or the end-of-text sentinel)
    model,        \* the model store: feature key -> weight
    prior,        \* what the caller's break vector held before the call
    result,       \* the caller's break vector
    finished

vars == <<inString, inputMap, rangeStart, charBefore, charAfter, model, prior,
          result, finished>>

(* Feature templates: a name and the window slots (1 = i-3 ... 6 = i+2).  *)
Templates ==
    { <<"UW1", <<1>>>>, <<"UW2", <<2>>>>, <<"UW3", <<3>>>>,
      <<"UW4", <<4>>>>, <<"UW5", <<5>>>>, <<"UW6", <<6>>>>,
      <<"BW1", <<2, 3>>>>, <<"BW2", <<3, 4>>>>, <<"BW3", <<4, 5>>>>,
      <<"TW1", <<1, 2, 3>>>>, <<"TW2", <<2, 3, 4>>>>,
      <<"TW3", <<3, 4, 5>>>>, <<"TW4", <<4, 5, 6>>>> }

(* The code point of the subject at code-point index c, or INVALID.       *)
CodePointAt(c) == IF c \in 0 .. Len(inString) - 1 THEN inString[c + 1] ELSE INVALID

(* The features of candidate index i: every template none of whose       *)
(* slots falls outside the subject.                                       *)
FeaturesAt(i) ==
    LET slot(k) == CodePointAt(i - 4 + k)
    IN  { <<t[1], [n \in DOMAIN t[2] |-> slot(t[2][n])]>> :
            t \in { u \in Templates : \A n \in DOMAIN u[2] : slot(u[2][n]) # INVALID } }

Bias == -SumFunction(model)

ScoreAt(i) == Bias + 2 * SumFunctionOnSet(model, FeaturesAt(i) \cap DOMAIN model)

(* Internal boundaries: the start, every positively scored index, the end.*)
InternalBreaks ==
    {0} \cup { i \in 1 .. Len(inString) - 1 : ScoreAt(i) > 0 } \cup {Len(inString)}

ToExternal(b) == IF inputMap = NoMap THEN b + rangeStart ELSE inputMap[b]

RangeEnd == ToExternal(Len(inString))

(* A boundary at rangeStart is kept only after closing punctuation, and   *)
(* one at rangeEnd only before a digit, opening punctuation or letter.    *)
Kept(p) ==
    /\ p = rangeStart => rangeStart > 0 /\ charBefore \in ClosePunctuationSet
    /\ p = RangeEnd => charAfter \in DigitOrOpenPunctuationOrAlphabetSet

ExternalBreaks ==
    SetToSortSeq({ p \in { ToExternal(b) : b \in InternalBreaks } : Kept(p) }, <)

Init ==
    /\ result = prior
    /\ finished = FALSE

FindBreaks ==
    /\ ~finished
    /\ finished' = TRUE
    /\ result' = prior \o ExternalBreaks
    /\ UNCHANGED <<inString, inputMap, rangeStart, charBefore, charAfter, model, prior>>

Spec == Init /\ [][FindBreaks]_vars
=============================================================================
