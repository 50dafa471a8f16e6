---------------------------- MODULE MlBreakEngine ----------------------------
(***************************************************************************)
(* MlBreakEngine::divideUpRange (icu4c/source/common/mlbe.cpp), one call,  *)
(* step by step: initElementList fills the six-slot window, the scan loop *)
(* evaluates a candidate index and slides the window by one code point,   *)
(* the end boundary is added, every internal boundary is translated to a  *)
(* text position (dropping duplicates and a boundary at rangeStart), and  *)
(* the trailing boundary is corrected.                                     *)
(*                                                                         *)
(* The subject string is a sequence of code points; a code point in       *)
(* Supplementary takes two UTF-16 code units, any other one.  codeUts is   *)
(* the code's code-unit cursor into the subject.                           *)
(***************************************************************************)
EXTENDS Integers, Sequences, FiniteSets, SequencesExt, Functions

CONSTANTS
    Chars,               \* code points the subject and the text may hold
    Supplementary,       \* those outside the BMP (U16_LENGTH = 2)
    INVALID,             \* the window's sentinel, u'|' in the code
    NoMap,               \* inputMap.isValid() is false
    EndOfText,           \* utext_char32At past the end of the text (U_SENTINEL)
    ClosePunctuationSet,
    DigitOrOpenPunctuationOrAlphabetSet,
    Subjects,            \* the subject strings a caller may pass
    RangeStarts,         \* the rangeStart values a caller may pass
    Models,              \* loaded model stores: feature key -> weight
    NormalizationSteps,  \* how far one code point may move the text position
                         \* in a caller-built map (0: an expansion)
    AllocMayFail,        \* whether foundBreaks.push may fail to allocate
    Int32Bits            \* the width of int32_t (the score, fNegativeSum)

ASSUME Supplementary \subseteq Chars
ASSUME NoMap \notin [Nat -> Nat] /\ EndOfText \notin Chars
ASSUME \A s \in Subjects : s \in Seq(Chars) /\ Len(s) >= 1
ASSUME NormalizationSteps \subseteq Nat
(* The width of int32_t is 32; TLC's own integers hold 31 bits, so a run *)
(* sets a narrower width with weights scaled to it.                        *)
ASSUME Int32Bits \in 2 .. 30
(* getIntVector gives the weights as int32_t.                             *)
ASSUME \A m \in Models : \A f \in DOMAIN m :
           m[f] \in -(2^(Int32Bits - 1)) .. 2^(Int32Bits - 1) - 1

VARIABLES
    \* the call's arguments and the text and model it reads
    inString, inputMap, rangeStart, charBefore, charAfter, model, prior,
    \* the call's locals and results
    pc, elementList, codeUts, i, boundary, numBreaks, j, prevUTextPos,
    foundBreaks, correctedNumBreaks, status

inputs == <<inString, inputMap, rangeStart, charBefore, charAfter, model, prior>>
locals == <<elementList, codeUts, i, boundary, numBreaks, j, prevUTextPos,
            foundBreaks, correctedNumBreaks, status>>
vars == <<inputs, pc, locals>>

-----------------------------------------------------------------------------
(* Text access over the UTF-16 subject.                                    *)

U16Length(c) == IF c \in Supplementary THEN 2 ELSE 1

UnitLength(s) == FoldLeft(LAMBDA n, c : n + U16Length(c), 0, s)

(* Code-unit offset of the k-th code point (1-based).                      *)
UnitOffset(s, k) == UnitLength(SubSeq(s, 1, k - 1))

(* UnicodeString::countChar32(0, u): code points starting before unit u.  *)
CountChar32(s, u) == Cardinality({ k \in 1 .. Len(s) : UnitOffset(s, k) < u })

(* UnicodeString::char32At(u): the code point covering code unit u.       *)
Char32At(s, u) ==
    s[CHOOSE k \in 1 .. Len(s) : UnitOffset(s, k) <= u /\ u < UnitOffset(s, k + 1)]

(* The position maps a caller builds (spec_modelled: CjkBreakEngine, not   *)
(* under src/): without supplementary code points there may be no map;     *)
(* otherwise position k is rangeStart plus the code units before it, or,   *)
(* after normalization, plus any steps of NormalizationSteps.              *)
CallerMaps(s, rs) ==
    LET n == Len(s)
        Walk(d) == [k \in 0 .. n |-> rs + FoldLeft(+, 0, SubSeq(d, 1, k))]
        utf16 == Walk([k \in 1 .. n |-> U16Length(s[k])])
    IN  (IF \A k \in 1 .. n : s[k] \notin Supplementary THEN {NoMap} ELSE {utf16})
        \cup { Walk(d) : d \in { d \in [1 .. n -> NormalizationSteps] :
                                   FoldLeft(+, 0, d) > 0 } }

RangeEnd == IF inputMap = NoMap THEN Len(inString) + rangeStart
                                ELSE inputMap[Len(inString)]

-----------------------------------------------------------------------------
(* evaluateBreakpoint: the features of the window, and the score.          *)

Valid(w, slots) == \A k \in slots : w[k] # INVALID

(* concatChar: the key is the prefix followed by the code points; at most *)
(* 4 + 3 * 2 = 10 UTF-16 units, so the 11-unit buffer never truncates it  *)
(* and a key is the pair of prefix and code points.                        *)
FeatureKey(prefix, cps) == <<prefix, cps>>

(* The 13 feature keys, each present when none of its slots is INVALID;  *)
(* window slots are 0..5 as in elementList (w1 = elementList[0]).          *)
WindowFeatures(w) ==
    LET key(p, slots) == FeatureKey(p, [n \in 1 .. Len(slots) |-> w[slots[n]]])
        table == { <<"UW1", <<0>>>>, <<"UW2", <<1>>>>, <<"UW3", <<2>>>>,
                   <<"UW4", <<3>>>>, <<"UW5", <<4>>>>, <<"UW6", <<5>>>>,
                   <<"BW1", <<1, 2>>>>, <<"BW2", <<2, 3>>>>, <<"BW3", <<3, 4>>>>,
                   <<"TW1", <<0, 1, 2>>>>, <<"TW2", <<1, 2, 3>>>>,
                   <<"TW3", <<2, 3, 4>>>>, <<"TW4", <<3, 4, 5>>>> }
    IN  { key(t[1], t[2]) : t \in { t \in table : Valid(w, ToSet(t[2])) } }

(* An int32_t: the value modulo 2^Int32Bits in two's complement.  Signed  *)
(* overflow is undefined in C++; the builds of this code (clang, no        *)
(* -ftrapv or overflow sanitizer) add in 32-bit registers and wrap.        *)
Int32(x) == ((x + 2^(Int32Bits - 1)) % 2^Int32Bits) - 2^(Int32Bits - 1)

(* fNegativeSum as loadMLModel leaves it for a model with unique keys: an *)
(* int32_t from which every weight was subtracted.                         *)
fNegativeSum == Int32(-SumFunction(model))

(* Lines 231-236: int32_t score = fNegativeSum, plus 2 * geti(key) for     *)
(* every feature the model holds; each addition wraps, so the sum is the  *)
(* wrapped total.                                                          *)
Score(w) == Int32(fNegativeSum + 2 * SumFunctionOnSet(model, WindowFeatures(w) \cap DOMAIN model))

(* Faulty variant, for mutation: a break also at score zero.              *)
BreaksAtZero(w) == Score(w) >= 0

(* Line 238: a break where the score is positive.                          *)
Breaks(w) == Score(w) > 0

(* evaluateBreakpoint(elementList, index, numBreaks, boundary): append     *)
(* index when the window breaks.                                           *)
evaluateBreakpoint(index) ==
    IF Breaks(elementList)
    THEN /\ boundary' = Append(boundary, index)
         /\ numBreaks' = numBreaks + 1
    ELSE UNCHANGED <<boundary, numBreaks>>

(* initElementList: w3..w6 hold the first four code points; the cursor is  *)
(* past them.                                                              *)
InitElementList(s) ==
    [k \in 0 .. 5 |-> IF k >= 2 /\ k - 1 <= Len(s) THEN s[k - 1] ELSE INVALID]

(* Faulty variant, for mutation: the cursor left after the third.          *)
InitCodeUtsThree(s) == UnitLength(SubSeq(s, 1, IF Len(s) < 3 THEN Len(s) ELSE 3))

InitCodeUts(s) == UnitLength(SubSeq(s, 1, IF Len(s) < 4 THEN Len(s) ELSE 4))

(* Faulty variant, for mutation: the cursor advanced even past the end.   *)
AdvanceAlways(cu, next) == cu + U16Length(next)

(* Lines 90-92: the cursor moves past a fetched code point, not past      *)
(* INVALID.                                                                *)
Advance(cu, next) == IF next # INVALID THEN cu + U16Length(next) ELSE cu

-----------------------------------------------------------------------------
Init ==
    /\ inString \in Subjects
    /\ rangeStart \in RangeStarts
    /\ inputMap \in CallerMaps(inString, rangeStart)
    /\ charBefore \in IF rangeStart > 0 THEN Chars ELSE {EndOfText}
    /\ charAfter \in Chars \cup {EndOfText}
    /\ model \in Models
    /\ prior \in {<<>>} \cup { <<p>> : p \in 0 .. rangeStart - 1 }
    /\ pc = "start"
    /\ elementList = [k \in 0 .. 5 |-> INVALID]
    /\ codeUts = 0 /\ i = 0 /\ boundary = <<>> /\ numBreaks = 0
    /\ j = 0 /\ prevUTextPos = -1 /\ correctedNumBreaks = 0
    /\ foundBreaks = prior
    /\ status = "ok"

(* Lines 57-82: the range is valid (the caller never passes an empty      *)
(* one), the window is filled and the start boundary is added.            *)
Begin ==
    /\ pc = "start"
    /\ rangeStart < RangeEnd
    /\ elementList' = InitElementList(inString)
    /\ codeUts' = InitCodeUts(inString)
    /\ boundary' = <<0>>
    /\ numBreaks' = 1
    /\ i' = 1
    /\ pc' = "scan"
    /\ UNCHANGED <<inputs, j, prevUTextPos, foundBreaks, correctedNumBreaks, status>>

(* Loop body, not the last index: evaluate i, then slide the window and   *)
(* fetch the next code point, or INVALID once the cursor is at the end.   *)
ScanStep ==
    /\ pc = "scan"
    /\ i < Len(inString)
    /\ i + 1 < Len(inString)
    /\ evaluateBreakpoint(i)
    /\ LET next == IF CountChar32(inString, codeUts) < Len(inString)
                   THEN Char32At(inString, codeUts) ELSE INVALID
       IN  /\ elementList' = [k \in 0 .. 5 |-> IF k < 5 THEN elementList[k + 1] ELSE next]
           /\ codeUts' = Advance(codeUts, next)
    /\ i' = i + 1
    /\ UNCHANGED <<inputs, pc, j, prevUTextPos, foundBreaks, correctedNumBreaks, status>>

(* Loop body at the last index: evaluate it and break out.                 *)
ScanLast ==
    /\ pc = "scan"
    /\ i < Len(inString)
    /\ i + 1 >= Len(inString)
    /\ evaluateBreakpoint(i)
    /\ pc' = "close"
    /\ UNCHANGED <<inputs, elementList, codeUts, i, j, prevUTextPos, foundBreaks,
                   correctedNumBreaks, status>>

(* A one-code-point subject: the loop body never runs.                     *)
ScanNone ==
    /\ pc = "scan"
    /\ i >= Len(inString)
    /\ pc' = "close"
    /\ UNCHANGED <<inputs, locals>>

(* Lines 96-100: add the end boundary if it is not there already.          *)
CloseRange ==
    /\ pc = "close"
    /\ IF Last(boundary) # Len(inString)
       THEN boundary' = Append(boundary, Len(inString)) /\ numBreaks' = numBreaks + 1
       ELSE UNCHANGED <<boundary, numBreaks>>
    /\ pc' = "translate"
    /\ UNCHANGED <<inputs, elementList, codeUts, i, j, prevUTextPos, foundBreaks,
                   correctedNumBreaks, status>>

(* Lines 102-126, one boundary: the text position of boundary j.           *)
CpPos == boundary[j + 1]
UTextPos == IF inputMap = NoMap THEN CpPos + rangeStart ELSE inputMap[CpPos]

(* Faulty variant, for mutation: an equal position counted as new.        *)
NewPositionOrSame == UTextPos >= prevUTextPos

(* Line 111: the position differs from the previous boundary's.            *)
NewPosition == UTextPos > prevUTextPos

(* foundBreaks.push: UVector32::addElement, which appends unless growing  *)
(* the vector fails; after a failed growth count and capacity are as they *)
(* were, so every later push fails too.                                    *)
Push(p) ==
    \/ /\ status = "ok"
       /\ foundBreaks' = Append(foundBreaks, p)
       /\ UNCHANGED status
    \/ /\ AllocMayFail \/ status # "ok"
       /\ status' = "error"
       /\ UNCHANGED foundBreaks

(* A new text position, not a suppressed range start: push it.             *)
TranslateEmit ==
    /\ pc = "translate"
    /\ j < numBreaks
    /\ NewPosition
    /\ UTextPos # rangeStart \/ (UTextPos > 0 /\ charBefore \in ClosePunctuationSet)
    /\ Push(UTextPos)
    /\ correctedNumBreaks' = correctedNumBreaks + 1
    /\ prevUTextPos' = UTextPos
    /\ j' = j + 1
    /\ UNCHANGED <<inputs, pc, elementList, codeUts, i, boundary, numBreaks>>

(* A boundary at rangeStart not preceded by closing punctuation.           *)
TranslateSuppressStart ==
    /\ pc = "translate"
    /\ j < numBreaks
    /\ NewPosition
    /\ UTextPos = rangeStart
    /\ ~(UTextPos > 0 /\ charBefore \in ClosePunctuationSet)
    /\ prevUTextPos' = UTextPos
    /\ j' = j + 1
    /\ UNCHANGED <<inputs, pc, elementList, codeUts, i, boundary, numBreaks,
                   foundBreaks, correctedNumBreaks, status>>

(* The same text position as the previous boundary (normalization         *)
(* expanded the text): ignored by decrementing numBreaks, the loop bound.  *)
TranslateDuplicate ==
    /\ pc = "translate"
    /\ j < numBreaks
    /\ ~NewPosition
    /\ numBreaks' = numBreaks - 1
    /\ prevUTextPos' = UTextPos
    /\ j' = j + 1
    /\ UNCHANGED <<inputs, pc, elementList, codeUts, i, boundary, foundBreaks,
                   correctedNumBreaks, status>>

TranslateDone ==
    /\ pc = "translate"
    /\ j >= numBreaks
    /\ pc' = "trailing"
    /\ UNCHANGED <<inputs, locals>>

(* Faulty variant, for mutation: the peeki() == rangeEnd test left out.   *)
TrailingBreakAny ==
    foundBreaks # <<>>

(* Lines 129-140: no break at rangeEnd before a character that is not a   *)
(* digit, opening punctuation or letter.                                   *)
TrailingBreak ==
    foundBreaks # <<>> /\ Last(foundBreaks) = RangeEnd

(* Faulty variant, for mutation: the pop not counted.                     *)
PopTrailingKeepCount ==
    foundBreaks' = Front(foundBreaks) /\ UNCHANGED correctedNumBreaks

(* Lines 137-138: foundBreaks.popi(), correctedNumBreaks--.                *)
PopTrailing ==
    foundBreaks' = Front(foundBreaks) /\ correctedNumBreaks' = correctedNumBreaks - 1

TrailingPop ==
    /\ pc = "trailing"
    /\ TrailingBreak
    /\ charAfter \notin DigitOrOpenPunctuationOrAlphabetSet
    /\ PopTrailing
    /\ pc' = "done"
    /\ UNCHANGED <<inputs, elementList, codeUts, i, boundary, numBreaks, j,
                   prevUTextPos, status>>

TrailingKeep ==
    /\ pc = "trailing"
    /\ ~(TrailingBreak /\ charAfter \notin DigitOrOpenPunctuationOrAlphabetSet)
    /\ pc' = "done"
    /\ UNCHANGED <<inputs, locals>>

(* The call has returned correctedNumBreaks.                               *)
Returned ==
    /\ pc = "done"
    /\ UNCHANGED vars

Next ==
    \/ Begin \/ ScanStep \/ ScanLast \/ ScanNone \/ CloseRange
    \/ TranslateEmit \/ TranslateSuppressStart \/ TranslateDuplicate \/ TranslateDone
    \/ TrailingPop \/ TrailingKeep \/ Returned

Spec == Init /\ [][Next]_vars

-----------------------------------------------------------------------------
TypeOK ==
    /\ pc \in {"start", "scan", "close", "translate", "trailing", "done"}
    /\ elementList \in [0 .. 5 -> Chars \cup {INVALID}]
    /\ codeUts \in 0 .. UnitLength(inString)
    /\ i \in 0 .. Len(inString)
    /\ boundary \in Seq(0 .. Len(inString))
    /\ numBreaks \in 0 .. Len(boundary)
    /\ j \in 0 .. Len(boundary)
    /\ foundBreaks \in Seq(Nat)
    /\ correctedNumBreaks \in Int
    /\ status \in {"ok", "error"}

(* The scan window is aligned with the text: whenever candidate index i   *)
(* is evaluated, slot k holds the code point at index i - 3 + k, INVALID  *)
(* outside the subject.  The code keeps this only through the code-unit   *)
(* cursor codeUts, advanced by U16_LENGTH of each fetched code point and  *)
(* not at all when the fetch yields INVALID.                               *)
WindowAligned ==
    pc = "scan" /\ i < Len(inString) =>
        \A k \in 0 .. 5 :
            elementList[k] = IF i - 3 + k \in 0 .. Len(inString) - 1
                             THEN inString[i - 2 + k] ELSE INVALID

(* The caller's break vector stays strictly increasing, and what the call *)
(* appends lies in [rangeStart, rangeEnd]: duplicates from an expanding   *)
(* map and a prior break below rangeStart must not break the order.       *)
BreaksOrdered ==
    /\ \A k \in 1 .. Len(foundBreaks) - 1 : foundBreaks[k] < foundBreaks[k + 1]
    /\ \A k \in Len(prior) + 1 .. Len(foundBreaks) :
          foundBreaks[k] \in rangeStart .. RangeEnd

(* The returned count is the number of breaks the call left in the        *)
(* caller's vector, as the caller (CjkBreakEngine) relies on, whenever    *)
(* the call succeeds.                                                      *)
CountMatches ==
    pc = "done" /\ status = "ok" =>
        correctedNumBreaks = Len(foundBreaks) - Len(prior)

(* The trailing correction (lines 129-140) peeks at the caller's whole   *)
(* vector: it pops only a break this call pushed at rangeEnd, so the      *)
(* breaks of earlier ranges stay in place, even when this call's pushes   *)
(* failed, were all suppressed, or were skipped after a duplicate.        *)
PriorKept == IsPrefix(prior, foundBreaks)

(* Refinement: a successful call implements the specified result.         *)
PB == INSTANCE PhraseBreaks WITH
        result <- IF pc = "done" THEN foundBreaks ELSE prior,
        finished <- pc = "done"

ImplementsPhraseBreaks == PB!Spec
=============================================================================
