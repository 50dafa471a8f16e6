---------------------------- MODULE LibcoreBridge ----------------------------
(***************************************************************************)
(* Java threads calling any of the libcore_bridge natives: LocaleNative    *)
(* and ATrace steps interleave over the threads' JNIEnvs, ICU's default   *)
(* locale and the trace buffer.  Each component's steps leave the other's *)
(* variables alone.                                                        *)
(***************************************************************************)
EXTENDS LocaleNative, ATrace

vars == <<threadVars, localeVars, traceVars>>

Init == ThreadsInit /\ LocaleInit /\ TraceInit

Next ==
    \/ LocaleNext /\ UNCHANGED traceVars
    \/ TraceNext /\ UNCHANGED localeVars
    \/ \E t \in Threads : Leave(t) /\ LocaleReturn(t) /\ TraceReturn(t)

Spec == Init /\ [][Next]_vars

-----------------------------------------------------------------------------
TypeOK ==
    /\ pc \in [Threads -> {"idle", "locale", "target", "create", "set", "keymap",
                           "utf", "begin", "end", "ret"}]
    /\ exc \in [Threads -> {"none", "NullPointerException", "OutOfMemoryError",
                            "RuntimeException"}]
    /\ ret \in [Threads -> {"void", "string", NULL}]
    /\ calls \in [Threads -> 0 .. MaxCalls]
    /\ defaultLocale \in Tags
    /\ \A t \in Threads : \A n \in DOMAIN trace[t] :
          trace[t][n] \in {<<"E">>} \cup ({"B"} \X (Events \cup {NULL}))

(* The steps that call into JNI: GetStringUTFChars or a throw in           *)
(* ScopedIcuLocale, NewString in jniCreateString, the throw of             *)
(* maybeThrowIcuException, GetStringUTFChars in ScopedUtfChars.           *)
JniCallSites == {"locale", "target", "create", "set", "utf"}

(* No native makes a JNI call while an exception is pending on its thread *)
(* (JNI allows only cleanup calls then, and CheckJNI aborts): every       *)
(* ScopedIcuLocale that fails is followed by an early return before the   *)
(* next one, before Locale::setDefault and before jniCreateString.        *)
NoJniCallWithPendingException ==
    \A t \in Threads : pc[t] \in JniCallSites => exc[t] = "none"

(* ICU's default locale changes only when a setDefaultNative installs its *)
(* own tag and returns normally; a setDefaultNative that fails to install *)
(* it (Locale::setDefault out of memory) returns with an exception, never *)
(* silently.                                                               *)
DefaultChangesOnlyOnSuccess ==
    [][ /\ defaultLocale' # defaultLocale =>
             \E t \in Threads : pc[t] = "set" /\ exc'[t] = "none"
                                /\ defaultLocale' = languageTag[t]
        /\ \A t \in Threads :
             pc[t] = "set" /\ pc'[t] = "ret" /\ defaultLocale' # languageTag[t] =>
                 exc'[t] # "none" ]_vars

(* A native call that returns with an exception has changed no            *)
(* process-wide state: Java callers skip the matching cleanup (the         *)
(* traceEnd of a traceBegin) when the call throws.                         *)
ThrownCallsHaveNoEffect ==
    \A t \in Threads : pc[t] = "ret" /\ exc[t] # "none" => ~effected[t]
=============================================================================
