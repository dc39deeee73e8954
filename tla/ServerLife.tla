----------------------------- MODULE ServerLife -----------------------------
(***************************************************************************)
(* What a runner promises the Trial that enters it: one server at a time,  *)
(* which may end at any moment; monitors that raise a flag; and a verdict  *)
(* at the end that names a kill exactly when the VRAM flag was up.  No     *)
(* server is left behind a Trial that is clean, nor one that no monitor    *)
(* interfered with.  ServerRunner keeps the promise with its threads and   *)
(* handles, and Trial is the user who relies on it.                        *)
(***************************************************************************)
CONSTANT Servers

VARIABLES
    phase,      \* "starting", "serving", "leaving" or "over"
    live,       \* the servers that run
    flags,      \* the monitors that have raised their flag
    verdict     \* "none" until it is over

vars == <<phase, live, flags, verdict>>

Monitors == {"vram", "ram"}
Verdicts == {"ok", "error", "watchdog"}

Init ==
    /\ phase = "starting"
    /\ live = {}
    /\ flags = {}
    /\ verdict = "none"

\* A model is only loaded where there is none.
Load ==
    /\ phase = "starting"
    /\ live = {}
    /\ \E s \in Servers : live' = {s}
    /\ UNCHANGED <<phase, flags, verdict>>

Serve ==
    /\ phase = "starting"
    /\ phase' = "serving"
    /\ UNCHANGED <<live, flags, verdict>>

\* A server that is ended, or ends on its own.
Fall ==
    /\ live' \subseteq live /\ live' # live
    /\ UNCHANGED <<phase, flags, verdict>>

Flag ==
    /\ \E m \in Monitors \ flags : flags' = flags \cup {m}
    /\ live' \subseteq live
    /\ UNCHANGED <<phase, verdict>>

\* The runner is left, or was never entered.
Leave ==
    /\ phase \in {"starting", "serving"}
    /\ phase' = "leaving"
    /\ UNCHANGED <<live, flags, verdict>>

Over ==
    /\ phase = "leaving"
    /\ phase' = "over"
    /\ live' \subseteq live
    /\ verdict' \in Verdicts
    /\ verdict' = "watchdog" <=> "vram" \in flags
    /\ flags = {} \/ verdict' = "ok" => live' = {}
    /\ UNCHANGED flags

\* The Trial ends before its server is started; a kill is then one of the bench, which has its own.
Quit ==
    /\ phase = "starting"
    /\ live = {} /\ flags = {}
    /\ phase' = "over"
    /\ verdict' \in Verdicts
    /\ UNCHANGED <<live, flags>>

Next == Load \/ Serve \/ Fall \/ Flag \/ Leave \/ Over \/ Quit

Spec == Init /\ [][Next]_vars
=============================================================================
