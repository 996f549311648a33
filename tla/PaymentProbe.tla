---------------------------- MODULE PaymentProbe ----------------------------
(***************************************************************************)
(* telemetry/payment_probe.py: PaymentProbe, one per experiment run.  Its  *)
(* collector thread runs probe(), which takes a token from the cache or    *)
(* logs in and then pays with it; the main thread of the experiment may    *)
(* call force_new_token() at any moment.  The cache is two fields that no  *)
(* lock holds together, so each access to one is a step.                   *)
(*                                                                         *)
(* probe() goes through                                                    *)
(*   idle -> check -> read -> pay -> idle                                  *)
(*             \-> login [-> expiry -> read] -> pay                        *)
(* A token is the signing key that minted it.                              *)
(***************************************************************************)
EXTENDS Naturals

CONSTANTS
    Runs,       \* experiment runs, each with its own probe
    NoToken     \* Python's None

ASSUME ProbeAssumption == NoToken \notin Nat

VARIABLES
    token,      \* _token
    fresh,      \* time.monotonic() < _token_expires_at
    probeAt,    \* where probe() is
    carried     \* what _ensure_token has returned, or the login has answered

probeVars == <<token, fresh, probeAt, carried>>

ProbeTypeOK ==
    /\ token \in [Runs -> Nat \cup {NoToken}]
    /\ fresh \in [Runs -> BOOLEAN]
    /\ probeAt \in [Runs -> {"idle", "check", "login", "expiry", "read", "pay"}]
    /\ carried \in [Runs -> Nat \cup {NoToken}]

ProbeInit ==
    /\ token = [i \in Runs |-> NoToken]
    /\ fresh = [i \in Runs |-> FALSE]
    /\ probeAt = [i \in Runs |-> "idle"]
    /\ carried = [i \in Runs |-> NoToken]

ProbeGoto(i, where) == probeAt' = [probeAt EXCEPT ![i] = where]

BeginProbe(i) ==
    /\ probeAt[i] = "idle" /\ ProbeGoto(i, "check")
    /\ UNCHANGED <<token, fresh, carried>>

\* Mutant of CheckCache: every probe logs in.
CheckNothing(i) ==
    /\ probeAt[i] = "check" /\ ProbeGoto(i, "login")
    /\ UNCHANGED <<token, fresh, carried>>

CheckCache(i) ==
    /\ probeAt[i] = "check"
    /\ ProbeGoto(i, IF token[i] # NoToken /\ fresh[i] THEN "read" ELSE "login")
    /\ UNCHANGED <<token, fresh, carried>>

\* The login answers with a token minted under key, which the thread has yet to
\* store.
LoginAnswered(i, key) ==
    /\ probeAt[i] = "login" /\ carried[i] = NoToken
    /\ carried' = [carried EXCEPT ![i] = key]
    /\ UNCHANGED <<token, fresh, probeAt>>

LoginFails(i) ==
    /\ probeAt[i] = "login" /\ carried[i] = NoToken
    /\ token' = [token EXCEPT ![i] = NoToken]
    /\ ProbeGoto(i, "pay")
    /\ UNCHANGED <<fresh, carried>>

StoreToken(i) ==
    /\ probeAt[i] = "login" /\ carried[i] # NoToken
    /\ token' = [token EXCEPT ![i] = carried[i]]
    /\ ProbeGoto(i, "expiry")
    /\ UNCHANGED <<fresh, carried>>

StoreExpiry(i) ==
    /\ probeAt[i] = "expiry"
    /\ fresh' = [fresh EXCEPT ![i] = TRUE]
    /\ ProbeGoto(i, "read")
    /\ UNCHANGED <<token, carried>>

\* return self._token, whatever it is by now.
ReadToken(i) ==
    /\ probeAt[i] = "read"
    /\ carried' = [carried EXCEPT ![i] = token[i]]
    /\ ProbeGoto(i, "pay")
    /\ UNCHANGED <<token, fresh>>

\* The payment, or the record of a failed login, ends the probe.
EndProbe(i) ==
    /\ probeAt[i] = "pay" /\ ProbeGoto(i, "idle")
    /\ carried' = [carried EXCEPT ![i] = NoToken]
    /\ UNCHANGED <<token, fresh>>

Lapse(i) ==
    /\ fresh[i] /\ fresh' = [fresh EXCEPT ![i] = FALSE]
    /\ UNCHANGED <<token, probeAt, carried>>

\* force_new_token: its two assignments.
DropToken(i) ==
    /\ token' = [token EXCEPT ![i] = NoToken]
    /\ UNCHANGED <<fresh, probeAt, carried>>

DropExpiry(i) ==
    /\ fresh' = [fresh EXCEPT ![i] = FALSE]
    /\ UNCHANGED <<token, probeAt, carried>>

\* A step of _ensure_token while auth-service signs with key.
EnsureToken(i, key) ==
    \/ CheckCache(i) \/ LoginAnswered(i, key) \/ LoginFails(i)
    \/ StoreToken(i) \/ StoreExpiry(i) \/ ReadToken(i)
=============================================================================
