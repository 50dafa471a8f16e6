# TLA+ models of the ICU ML phrase-break engine

This directory holds TLA+ models of `src/icu4c/source/common/mlbe.cpp`. That file
contains `MlBreakEngine`, the statistical phrase-boundary detector ICU uses for Japanese
phrase breaking. It also holds models of the three JNI binding files of
`android_icu4j/libcore_bridge`. The models are checked with TLC. The remaining sources
in `src/` are unit tests (see the inventory below).

## 1. Inventory

| Component | Source | State | Operations |
|---|---|---|---|
| Break engine scan | `mlbe.cpp` 35-277: `divideUpRange`, `evaluateBreakpoint`, `initElementList`, `concatChar` | per call: the six-slot window `elementList`, the code-unit cursor `codeUts`, the internal `boundary` vector and `numBreaks`, `prevUTextPos`, `correctedNumBreaks`, the caller's `foundBreaks`, `status` | one call of `divideUpRange` |
| Model store | `mlbe.cpp` 21-31, 279-315: constructor, `loadMLModel` | `fModel` (Hashtable key -> weight), `fNegativeSum`, the opened resource bundles | construction |
| Caller (not in `src/`) | `CjkBreakEngine::divideUpDictionaryRange` | builds the subject string and the `inputMap` position map | calls `divideUpRange` |
| Time-zone bundle cache | `UResourceBundleNative.cpp` | ICU's bundle cache; the bundle open in the current call | `cacheTimeZoneBundles` |
| Locale bindings | `LocaleNative.cpp` | ICU's default locale and key-map cache; the calling thread's pending Java exception | `setDefaultNative`, `getDisplay{Country,Language,Script,Variant}Native`, `cacheUnicodeExtensionSubtagsKeyMap` |
| Trace bindings | `ATrace.cpp` | the per-thread trace; the calling thread's pending Java exception | `nativeTraceBegin`, `nativeTraceEnd` |
| Tests | `uchar_test.cpp`, `utypes_test.cpp` | none | gtest cases |

**How they interact.** The caller segments text into ranges of dictionary characters. For
each range it hands `divideUpRange` the subject string and an optional map from
code-point index to text position. The caller builds this map when the text is not one
UTF-16 chunk, when the subject has supplementary code points, or when NFKC normalization
changed the text. `divideUpRange` reads the immutable model store built by the
constructor. It reads the text at `rangeStart - 1` and at `rangeEnd`, and appends to the
caller's `foundBreaks`. That vector already holds the breaks of earlier ranges. The
model store is read-only after construction, and each call keeps its state on the stack.
So there is no shared mutable state and no concurrency to model in the engine.

The JNI bindings run on any Java thread. Each native returns to Java with at most one
pending exception on its thread. The natives share ICU's default locale (the locale
bindings) and the trace buffer (the trace bindings). `cacheTimeZoneBundles` runs once, at
start-up, on one thread.

**What is hard.** Nothing here is concurrent. The hard part is sequential bookkeeping
that a unit test rarely reaches:

- the window cursor counts UTF-16 units while the loop counts code points;
- the sentinel `INVALID` is the real code point `u'|'`;
- the loop bound `numBreaks` is decremented inside its own loop when a map repeats a
  position;
- the trailing correction peeks at a vector that holds earlier ranges' breaks;
- a failed `push` is still counted;
- `loadMLModel` subtracts a value before `puti` can fail or overwrite a repeated key,
  trusts `U_ASSERT` for the table sizes, and orphans the bundle it opened.
- In the bindings, every failed `ScopedIcuLocale` must return before the next JNI call.
  A failed `Locale::setDefault` must become an exception. `cacheTimeZoneBundles` must
  give each bundle its own `UErrorCode`.

PROJECT.json lists every hazard at its line.

**What makes each part correct.**

- Scan: the window at candidate `i` holds the code points `i-3 .. i+2`. The result is
  the specified one: one break per distinct text position, the start break kept only
  after closing punctuation, and the end break kept only before a digit, opening
  punctuation or letter. The caller's vector stays strictly increasing, and the
  breaks of earlier ranges it held are never popped. The returned count matches what
  was appended.
- Model store: a successful construction holds exactly the bundle's key/value pairs,
  with `bias = -sum`. A bad bundle fails construction. No bundle stays open.
- Bindings:
  - no JNI call is made with an exception pending;
  - a native that throws returns no jstring (a bogus locale, however, makes
    `getDisplay*Native` return NULL with nothing thrown);
  - a call that throws has changed nothing process-wide;
  - the default locale changes only through a successful `setDefaultNative`;
  - `cacheTimeZoneBundles` tries every bundle and closes each one.

## 2. Modules

| Module | Models | State and actions |
|---|---|---|
| `PhraseBreaks` | what one call promises (spec.md 4.2), the abstract specification | `result` of the caller's vector. The single action `FindBreaks` appends `ExternalBreaks`. That is computed directly from the text: the features at each index, the internal breaks as a set, the text positions as a set, then the start and end rules. |
| `MlBreakEngine` | `divideUpRange` and its helpers | The call's inputs are variables fixed in `Init`. Actions: `Begin` (lines 57-82), `ScanStep` / `ScanLast` / `ScanNone` (the loop, 84-93), `CloseRange` (96-100), `TranslateEmit` / `TranslateSuppressStart` / `TranslateDuplicate` / `TranslateDone` (102-126), `TrailingPop` / `TrailingKeep` (129-140), `Returned`. `WindowFeatures` / `Score` / `evaluateBreakpoint` model lines 145-242. `InitElementList` / `InitCodeUts` model `initElementList`. `CountChar32` / `Char32At` model the `UnicodeString` calls over a UTF-16 subject. `Push` models `UVector32::push`, which after a failed growth fails every later push. `ImplementsPhraseBreaks` instantiates `PhraseBreaks` with `result <- IF pc = "done" THEN foundBreaks ELSE prior`. |
| `MlModelStore` | constructor and `loadMLModel` | `Construct` (Hashtable allocation), `OpenDirect`, `GetModelValues`, `GetModelKeys`, `LoadEntry` / `LoadEntryNotString` / `LoadEntrySkip` / `LoadDone` (the loop, 306-314), `Exit` (scope exit closes the `LocalUResourceBundlePointer`s). `openBundles` tracks the heap bundles. |
| `TimeZoneBundleCache` | `cacheTimeZoneBundles` and `openDirectAndCloseRes` | `available` is the set of bundles the data holds, fixed in `Init`. `OpenDirect` (lines 27-32) either opens the bundle, which also enters `cached`, or fails with `U_MISSING_RESOURCE_ERROR` (bundle not available) or `U_MEMORY_ALLOCATION_ERROR`, appending to `log` (the `ALOGE`). It keeps an incoming failure, as every ICU call does. `Close` is line 34. `NextBundle` (lines 38-41) resets `status` through `ResetStatus` (line 27). |
| `JniThreads` | what JNI gives every native | Per thread: `pc`, `native`, the pending exception `exc`, the return value `ret`, a call count, and `effected`, a history variable that records whether the current call changed process-wide state. `Enter` is a Java call into a native, made with no exception pending. `Leave` is the return. |
| `LocaleNative` | the six natives of `LocaleNative.cpp` | `SetDefaultLocale` / `SetDefault` (lines 26-34), `DisplayLocale` / `DisplayTarget` / `DisplayCreateString` (lines 37-48, the same for all four `getDisplay*Native`, which differ only in the ICU getter), `CacheUnicodeExtensionSubtagsKeyMap` (96-109), and a `Call...` action each for the Java side. `ScopedIcuLocale` is libcore's helper, modelled by its outcomes: NPE for a null tag, OOM from `GetStringUTFChars`, a bogus locale with nothing thrown (`createFromName` out of memory), or a valid locale. `CheckValid` is the `if (!valid()) return`. `MaybeThrowIcuException` turns a failed status into an exception. |
| `ATrace` | the two natives of `ATrace.cpp` | `TraceBeginUtfChars` (line 26, `ScopedUtfChars`), `TraceBegin` (line 28: `ATRACE_BEGIN` on `c_str()`, which writes a `B` line when tracing is enabled, even with a NULL name), `NativeTraceEnd` (line 32). `SetTracing` is another process toggling the trace tag. |
| `LibcoreBridge` | both binding files together | Interleaves the two components' actions over the threads. Each step leaves the other component's variables unchanged. Holds the bindings' properties. |
| `MC_MlBreakEngine`, `MC_MlModelStore`, `MC_LibcoreBridge` | model values, bounds, symmetry over threads | |

**Abstractions.**

- A code point is a string such as `"a"`. Membership in `Supplementary` gives its UTF-16
  length.
- A feature key is the pair `<<prefix, code points>>`. `concatChar` builds at most
  4 + 3×2 = 10 units into an 11-unit buffer, so it never truncates, and the string adds
  nothing the pair does not tell apart.
- The character classes are the sets the constructor receives.
- The text outside the subject is the two code points the code reads: `charBefore` at
  `rangeStart - 1` and `charAfter` at `rangeEnd` (`EndOfText` past the end).
- `CallerMaps` is the caller's contract, modelled from spec.md because the caller is not
  under `src/`: no map, or the UTF-16 map, or a normalization map whose steps come from
  `NormalizationSteps` (0 is an expansion).
- The rangeStart >= rangeEnd error path is not reachable from the caller and is a guard
  of `Begin`.

## 3. Runs

| Run | Expect | Checks | Bounds |
|---|---|---|---|
| `engine_scan` | pass | `TypeOK`, `WindowAligned`, `ImplementsPhraseBreaks` | subjects of 1-6 code points over {`a` BMP closing punctuation, `S` supplementary letter}, and of 1-5 code points over these and `b` (BMP, in neither class, like U+3002). rangeStart in {0, 2}, a prior break below rangeStart or none, every charBefore/charAfter. Four models: empty; a unigram; unigram+bigram+trigram needing left context plus a bigram only a `b` matches; weights on slots 5-6 that only a slid window fills. 783k states, about a minute. |
| `engine_normalized` | pass | `PriorKept`, `CountMatches`, `BreaksOrdered` | subjects of 1-4 code points, every normalization map with steps {0, 1}, a prior break below rangeStart or none, pushes that may fail. 452k states. |
| `engine_expansion` | violation | `ImplementsPhraseBreaks` | as `engine_normalized` without allocation failure |
| `engine_bar` | violation | `WindowAligned` | subjects over {`a`, `|`} of up to six code points |
| `engine_overflow` | violation | `ImplementsPhraseBreaks` | `Int32Bits` = 28; subjects over {`a`, `S`} of up to three code points; one model with `UW3:a` and `UW4:a` both weighing 2^26 |
| `store_load` | pass | `TypeOK`, `LoadedFaithfully` | bundles with up to two distinct keys (or an unreadable entry) and as many weights in {-1, 2}, a missing bundle, a missing table; allocation may fail |
| `store_sizes` | violation | `SizesChecked` | bundles with fewer values than keys (up to two keys); the read past the end yields 0 or 7 |
| `store_leak` | violation | `NoBundleLeak` | as `store_load` |
| `store_dupkeys` | violation | `BiasIsNegatedSum` | modelKeys `<<K1, K1>>` with two weights from {-1, 2} |
| `tz_cache` | pass | `TypeOK`, `EveryBundleTried`, `NoBundleLeak` | every subset of the four bundles available, allocation may fail. 1,096 states. |
| `bridge` | pass | `TypeOK`, `NoJniCallWithPendingException`, `DefaultChangesOnlyOnSuccess` (action property) | two threads (symmetric), two native calls each, with any native, tags {en, ja} or null, event {ev} or null, every allocation outcome (a bogus locale among them), tracing toggled at any time. 2.5M states, about two minutes. |
| `bridge_throw` | violation | `ThrownCallsHaveNoEffect` | as `bridge`, without allocation failure |

**Why the bounds are enough.**

- Six code points is the window's width. Subjects of five or more make the loop fetch
  real code points into slot 6. Length 6 fetches two, so the cursor's advance is used
  after it has already moved.
- The supplementary code point exercises the unit/code-point split in every position.
- Maps of length 4 with steps {0, 1} produce duplicates at the start, in the middle and
  at the end, next to model breaks.
- For the bindings, two threads are enough, because the only shared state is the default
  locale and the trace, and each is written by one step. One call per thread reaches
  every early return of every native: the arguments range over null and non-null, and
  every allocation may fail. The second call per thread covers three more cases:
  - a native called after an earlier one threw on the same thread;
  - a setDefault racing a setDefault;
  - a thread's begin and end lines.
  A native's locals (its jstring arguments and `ScopedUtfChars`) die when it returns
  (`LocaleReturn`, `TraceReturn`), and so does its pending exception (`Leave`).
  Otherwise stale copies would multiply the states without telling anything apart.
- The third code point `b` lets `WindowAligned` tell three neighbours apart. A window
  that slid by the wrong amount between two equal letters no longer hides. The
  three-letter subjects stop at five because length six takes over three minutes.
  The two-letter subjects still reach six.
- `tz_cache` enumerates every subset of available bundles. A failure can therefore
  precede an available bundle at every position.
- The models make breaks depend on every slot class, so both branches of every guard
  fire. Every action and disjunct fires in the passing runs.

**What the runs show.**

- `engine_scan`: for every input in the bounds, the code computes exactly the
  specified breaks when the map does not repeat a position.
- `engine_normalized`: order and the returned count survive expansions and allocation
  failures.
- `engine_expansion` (a spec/code divergence, `mlbe.cpp:122`): `--numBreaks` shortens
  the loop that is walking the boundaries. With map 0->0, 1->0, 2->1, a model break at
  1 and a letter after the range, the range-end break is never pushed.
- `engine_bar` (divergence, `mlbe.cpp:90`): a `'|'` in the subject equals `INVALID`, the
  cursor stops, and every later slide re-reads it.
- `engine_overflow` (divergence, `mlbe.cpp:235`): the score and `fNegativeSum` are
  `int32_t`. Two weights of 2^30 (2^26 at the run's width) matched at one candidate give
  a bias of -2^31, which still fits, and a score of 2^31, which wraps to -2^31. With
  subject `aa` the spec breaks at 1 and the code does not. ICU's shipped models hold
  small weights, so this is an unstated limit on the model data. Neither the code nor
  the spec states it.
- `engine_normalized` also shows that the trailing correction, which peeks at the
  caller's whole vector, pops only this call's break at rangeEnd: the earlier range's
  break survives failed pushes and suppressed or skipped boundaries (`PriorKept`).
- `store_sizes` (divergence, `mlbe.cpp:310`): with fewer values than keys, `value[idx]`
  is read past the end of the vector (the `U_ASSERT` is compiled out) and construction
  succeeds. TLC's trace has keys `<<K2>>` and no values: the read yields 0, `puti`
  removes K2 again, and the constructor reports success with an empty model. With more
  values than keys the extras are simply ignored.
- `store_leak` (code bug, `mlbe.cpp:294`): `rbp.orphan()` leaks the `jaml` bundle on
  every construction.
- `store_dupkeys` (divergence, `mlbe.cpp:312`): a repeated key is overwritten by `puti`,
  but both of its values are subtracted. TLC's trace has values -1 and -1: the store
  holds K1 -> -1 with a bias of 2 instead of 1.
- `tz_cache`: a failure of one bundle never stops or spoils the next, and each bundle
  is closed before the next one opens.
- `bridge`: every early return of the locale natives comes before the next JNI call.
  A failed `Locale::setDefault`
  always surfaces as an exception.
- `bridge_throw` (code bug, `ATrace.cpp:28`): `nativeTraceBegin(null)` writes a begin
  line named `(null)` and returns with NullPointerException pending. A Java caller that
  throws out of `traceBegin` never reaches the `traceEnd` in its `finally`, so the
  section stays open.

Every property of a passing run has a mutant in PROJECT.json: a plausible bug in the
mapped code that TLC catches. The bugs are:

- the cursor advancing past the end;
- the cursor starting after three code points;
- a break at score 0;
- a pop that is not counted;
- the trailing pop without its `peeki() == rangeEnd` test;
- `>=` for `>` on the duplicate test;
- an unreadable key accepted;
- `value[idx + 1]` read instead of `value[idx]`;
- one `UErrorCode` shared by the four `openDirectAndCloseRes` calls;
- a missing `ures_close`;
- a fifth call past the bundle list;
- a `valid()` test left out;
- `maybeThrowIcuException` left out.

**Fairness.** None is assumed, and no liveness property is stated. Every operation
modelled is straight-line code or a loop whose index only grows. Nothing waits on
another thread or retries. Termination therefore holds by the shape of each model, and
a liveness property would check nothing about the code.

Each call runs to `done` and its last state stutters through `Returned` / `Constructed`,
so deadlock checking stays on. In `LibcoreBridge`, `SetTracing` is always enabled:
another process may toggle tracing at any time.

## 4. Not modelled, and why

- The tests (`uchar_test.cpp`, `utypes_test.cpp`) check ICU facilities outside
  `src/`. They have no state of their own.
- The JNI registration functions (`register_*`, `gMethods`) only hand tables to the
  runtime. They are the modules' `Init` and `Next`.
- The JNI helpers outside `src/` (`ScopedIcuLocale`, `ScopedUtfChars`,
  `jniCreateString`, the atrace macros) are modelled by their outcomes, not their code.
  `ScopedIcuLocale` includes the bogus `icu::Locale` with no exception pending that
  `createFromName` leaves when it fails to allocate. `getDisplay*Native` then returns
  NULL with nothing thrown, and `setDefaultNative` returns silently. No property claims
  otherwise: "NULL exactly when thrown" is false for this outcome, and no spec, comment
  or test in this repository asks for it.
- `Put` models `puti`: a value of 0 removes the key, since the hash entry's value slot
  holds the integer and zero means empty.
- No balance property is stated for the trace. Toggling the tag between begin and end
  unbalances it for every caller of atrace.
- The bundle format itself is not modelled. A table is either present with its content,
  or missing.
- `int32_t` is 32 bits wide in the code, but TLC's integers hold only 31. The
  score (`MlBreakEngine`) and `fNegativeSum` (`MlModelStore`) therefore wrap at the
  width `Int32Bits`, which each cfg sets: 30 in the passing runs, where no weight comes
  near it, and 28 in `engine_overflow`, with its weights scaled to match. Two's
  complement arithmetic behaves the same at every width, so the wrap TLC shows at 28
  bits is the one the code meets at 32. Signed overflow is undefined in C++. The model
  takes the wrap that clang's 32-bit adds produce: the build enables no trap and no
  overflow sanitizer.
- A composition of `MlModelStore` with `MlBreakEngine` is not checked as a run. The
  engine assumes exactly what `LoadedFaithfully` guarantees of a successful
  construction: `model` holds the bundle's pairs, with `bias = -sum`. The two are
  joined by that assume/guarantee pair, not by shared steps. `store_dupkeys` shows the
  one bundle shape under which the guarantee fails.
- What a call that failed on `push` leaves in the caller's vector is not stated as a
  property. ICU callers discard results on failure, and spec.md 7 forbids partial
  results only for text-access errors.

## 5. Plan

Done:

1. `PhraseBreaks` (the abstract specification).
2. `MlBreakEngine` and its refinement of `PhraseBreaks`.
3. `MlModelStore`, including the repeated-key run.
4. `TimeZoneBundleCache`.
5. The JNI bindings: `JniThreads`, `LocaleNative`, `ATrace`, composed in
   `LibcoreBridge`.
6. Wider bounds: `engine_scan` with a third code point, `bridge` with two calls per
   thread.
7. The `int32_t` width of the score and the bias, and `engine_overflow`.

Optional next step:

8. A composition module `MlPhraseBreaking` that instantiates the store and then runs
   several consecutive `divideUpRange` calls on adjacent ranges. It would check that
   the breaks across ranges stay strictly increasing and that the trailing correction
   never pops an earlier range's break. Consecutive calls add little over the `prior`
   break the engine model already carries.
