----------------------------- MODULE LocaleNative -----------------------------
(***************************************************************************)
(* The LocaleNative JNI bindings (android_icu4j libcore_bridge             *)
(* com_android_icu_util_LocaleNative.cpp) as steps of a Java thread:       *)
(* setDefaultNative, the four getDisplay*Native and                        *)
(* cacheUnicodeExtensionSubtagsKeyMap.  The four getDisplay*Native differ  *)
(* only in the ICU getter they call; the display string is abstracted to  *)
(* "string".                                                               *)
(*                                                                         *)
(* ScopedIcuLocale(env, tag) (libcore) throws NullPointerException for a   *)
(* null tag; reading the tag's UTF chars may fail with OutOfMemoryError;   *)
(* Locale::createFromName may leave the locale bogus (an allocation        *)
(* failure inside ICU) with no exception pending; otherwise it is valid.   *)
(***************************************************************************)
EXTENDS JniThreads

CONSTANTS
    Tags          \* the non-null language tags Java passes

VARIABLES
    languageTag,  \* languageTag[t]: javaLanguageTag of the current call
    targetTag,    \* targetTag[t]: javaTargetLanguageTag of a getDisplay call
    defaultLocale,\* ICU's process-wide default locale
    keyMapCached  \* ICU has loaded the Unicode extension key map

localeVars == <<languageTag, targetTag, defaultLocale, keyMapCached>>

DisplayNatives ==
    {"getDisplayCountryNative", "getDisplayLanguageNative",
     "getDisplayScriptNative", "getDisplayVariantNative"}

(* The outcomes of constructing ScopedIcuLocale(env, tag).                 *)
ScopedIcuLocale(tag) ==
    IF tag = NULL
    THEN {[valid |-> FALSE, exc |-> "NullPointerException"]}
    ELSE {[valid |-> TRUE, exc |-> "none"]}
         \cup {[valid |-> FALSE, exc |-> e] : e \in OOM}
         \cup (IF AllocMayFail THEN {[valid |-> FALSE, exc |-> "none"]} ELSE {})

(* Faulty variant, for mutation: the valid() test left out.                *)
CheckValidNone(o, nextPc) == nextPc

(* Lines 27-29, 38-40, 42-44: if (!icuLocale.valid()) return.              *)
CheckValid(o, nextPc) == IF o.valid THEN nextPc ELSE "ret"

(* A step that constructs a ScopedIcuLocale: a JNI call made with an       *)
(* exception already pending keeps that exception.                         *)
ConstructLocale(t, tag, nextPc) ==
    \E o \in ScopedIcuLocale(tag) :
        /\ pc' = [pc EXCEPT ![t] = CheckValid(o, nextPc)]
        /\ exc' = [exc EXCEPT ![t] = IF @ = "none" THEN o.exc ELSE @]
        /\ ret' = [ret EXCEPT ![t] = IF native[t] \in DisplayNatives THEN NULL ELSE "void"]

(* Faulty variant, for mutation: the status not turned into an exception. *)
MaybeThrowIcuExceptionNever(status) == "none"

(* IcuUtilities' maybeThrowIcuException: a failed UErrorCode becomes a    *)
(* pending Java exception.                                                 *)
MaybeThrowIcuException(status) == IF status = "ok" THEN "none" ELSE "RuntimeException"

CallSetDefaultNative(t) ==
    \E tag \in Tags \cup {NULL} :
        /\ Enter(t, "setDefaultNative", "locale")
        /\ languageTag' = [languageTag EXCEPT ![t] = tag]
        /\ UNCHANGED <<targetTag, defaultLocale, keyMapCached>>

(* Lines 26-29: ScopedIcuLocale icuLocale(env, javaLanguageTag).           *)
SetDefaultLocale(t) ==
    /\ pc[t] = "locale" /\ native[t] = "setDefaultNative"
    /\ ConstructLocale(t, languageTag[t], "set")
    /\ UNCHANGED <<native, calls, effected>> /\ UNCHANGED localeVars

(* Lines 31-33: Locale::setDefault, which fails only when it cannot        *)
(* allocate the new default and then leaves the old one, followed by       *)
(* maybeThrowIcuException.                                                 *)
SetDefault(t) ==
    /\ pc[t] = "set"
    /\ \E status \in {"ok"} \cup (IF AllocMayFail THEN {"U_MEMORY_ALLOCATION_ERROR"} ELSE {}) :
          /\ defaultLocale' = IF status = "ok" THEN languageTag[t] ELSE defaultLocale
          /\ effected' = [effected EXCEPT ![t] = status = "ok"]
          /\ exc' = [exc EXCEPT ![t] = MaybeThrowIcuException(status)]
    /\ pc' = [pc EXCEPT ![t] = "ret"]
    /\ UNCHANGED <<native, ret, calls, languageTag, targetTag, keyMapCached>>

CallGetDisplayNative(t) ==
    \E m \in DisplayNatives, target, tag \in Tags \cup {NULL} :
        /\ Enter(t, m, "locale")
        /\ targetTag' = [targetTag EXCEPT ![t] = target]
        /\ languageTag' = [languageTag EXCEPT ![t] = tag]
        /\ UNCHANGED <<defaultLocale, keyMapCached>>

(* Lines 37-40: the locale whose names are wanted.                         *)
DisplayLocale(t) ==
    /\ pc[t] = "locale" /\ native[t] \in DisplayNatives
    /\ ConstructLocale(t, languageTag[t], "target")
    /\ UNCHANGED <<native, calls, effected>> /\ UNCHANGED localeVars

(* Lines 41-44: the locale to display them in.                             *)
DisplayTarget(t) ==
    /\ pc[t] = "target"
    /\ ConstructLocale(t, targetTag[t], "create")
    /\ UNCHANGED <<native, calls, effected>> /\ UNCHANGED localeVars

(* Lines 46-48: the ICU getter, then jniCreateString, which returns NULL   *)
(* with OutOfMemoryError pending when NewString fails.                     *)
DisplayCreateString(t) ==
    /\ pc[t] = "create"
    /\ \/ ret' = [ret EXCEPT ![t] = "string"] /\ UNCHANGED exc
       \/ \E e \in OOM : ret' = [ret EXCEPT ![t] = NULL] /\ exc' = [exc EXCEPT ![t] = e]
    /\ pc' = [pc EXCEPT ![t] = "ret"]
    /\ UNCHANGED <<native, calls, effected>> /\ UNCHANGED localeVars

(* Lines 36-94: getDisplay{Country,Language,Script,Variant}Native.         *)
GetDisplayNative(t) == DisplayLocale(t) \/ DisplayTarget(t) \/ DisplayCreateString(t)

CallCacheKeyMap(t) ==
    /\ Enter(t, "cacheUnicodeExtensionSubtagsKeyMap", "keymap")
    /\ UNCHANGED localeVars

(* Lines 96-109: uloc_forLanguageTag loads and caches the key map; its    *)
(* status is never read, so a failure is silent.                          *)
CacheUnicodeExtensionSubtagsKeyMap(t) ==
    /\ pc[t] = "keymap"
    /\ \/ keyMapCached' = TRUE
       \/ AllocMayFail /\ UNCHANGED keyMapCached
    /\ pc' = [pc EXCEPT ![t] = "ret"]
    /\ UNCHANGED <<native, exc, ret, calls, effected, languageTag, targetTag, defaultLocale>>

(* The jstring arguments of the returning native go out of scope.          *)
LocaleReturn(t) ==
    /\ languageTag' = [languageTag EXCEPT ![t] = NULL]
    /\ targetTag' = [targetTag EXCEPT ![t] = NULL]
    /\ UNCHANGED <<defaultLocale, keyMapCached>>

LocaleInit ==
    /\ languageTag = [t \in Threads |-> NULL]
    /\ targetTag = [t \in Threads |-> NULL]
    /\ defaultLocale \in Tags
    /\ keyMapCached = FALSE

LocaleNext ==
    \E t \in Threads :
        \/ CallSetDefaultNative(t) \/ SetDefaultLocale(t) \/ SetDefault(t)
        \/ CallGetDisplayNative(t) \/ GetDisplayNative(t)
        \/ CallCacheKeyMap(t) \/ CacheUnicodeExtensionSubtagsKeyMap(t)
=============================================================================
