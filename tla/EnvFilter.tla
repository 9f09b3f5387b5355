----------------------------- MODULE EnvFilter -----------------------------
(***************************************************************************)
(* Which environment a command gets.                                       *)
(*   sandbox/config.go           BaselineAllowEnv, EffectiveAllowEnv,      *)
(*                               FilterEnv, validateAllowEnv               *)
(*   internal/daemon/handler.go  validateEnv, envMapToSlice                *)
(*   sandbox/sandbox.go          buildEnv                                  *)
(*                                                                         *)
(* An environment asked for is a set of keys; what matters of a value is   *)
(* who gave it.                                                            *)
(***************************************************************************)
EXTENDS Integers, Sequences

CONSTANTS
    Glob,               \* what each well-formed pattern matches
    BaselineAllowEnv,   \* patterns that are always allowed
    BadKeys             \* keys that are no names, or whose value has a NUL,
                        \* LF or CR

(* The keys that buildEnv sets itself.                                     *)
Injected == {"PATH", "TERM", "GOTELEMETRY"}

(* config.go keeps them out of the baseline: init panics on their names.   *)
ASSUME BaselineAssumption ==
    /\ BaselineAllowEnv \subseteq DOMAIN Glob
    /\ \A pattern \in BaselineAllowEnv : Glob[pattern] \cap Injected = {}

WellFormed(patterns) == patterns \subseteq DOMAIN Glob

(* PATH is let through with the other standard paths.                       *)
FaultyMatched(patterns) == {"PATH"} \cup UNION {Glob[p] : p \in patterns}

Matched(patterns) == UNION {Glob[p] : p \in patterns}

EffectiveAllowEnv(allowEnv) == BaselineAllowEnv \cup allowEnv

FilterEnv(allowEnv, env) == env \cap Matched(EffectiveAllowEnv(allowEnv))

ValidEnv(env) == env \cap BadKeys = {}

Layer(keys, giver) == [keys |-> keys, giver |-> giver]

(* Each layer is a run of entries with different keys: PATH, the fallback  *)
(* for HOME, TERM and GOTELEMETRY, and the keys of the request, whose      *)
(* order among each other is that of a Go map.                             *)
BuildEnv(env) ==
    <<Layer({"PATH"}, "sandbox"),
      Layer(IF "HOME" \in env THEN {} ELSE {"HOME"}, "sandbox"),
      Layer({"TERM", "GOTELEMETRY"}, "sandbox"),
      Layer(env, "request")>>

(* os/exec keeps the last of several entries with the same key.            *)
Giver(layers, key, giver) ==
    \E i \in DOMAIN layers :
        /\ key \in layers[i].keys
        /\ layers[i].giver = giver
        /\ \A j \in DOMAIN layers : j > i => key \notin layers[j].keys
=============================================================================
