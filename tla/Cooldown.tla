------------------------------- MODULE Cooldown -------------------------------
(***************************************************************************)
(* What the alert publisher promises its channel, with no word about how:  *)
(* an alert with the same fingerprint is raised again only when more than  *)
(* Window has passed since every earlier one.  The promise is made by one  *)
(* process: a restart forgets what was raised (the table is in memory).    *)
(***************************************************************************)
EXTENDS Integers

CONSTANTS Fingerprints,  \* what an alert can be about
          Window         \* alert_dedup_window_seconds

VARIABLES now,           \* the clock
          sent           \* alerts raised by this process: [fp, at]

cooldownVars == <<now, sent>>

Init == now = 0 /\ sent = {}

Tick == now' = now + 1 /\ UNCHANGED sent

Emit(fp) ==
  /\ \A a \in sent : a.fp = fp => now - a.at > Window
  /\ sent' = sent \cup {[fp |-> fp, at |-> now]}
  /\ UNCHANGED now

Restart == sent' = {} /\ UNCHANGED now

Next == Tick \/ Restart \/ \E fp \in Fingerprints : Emit(fp)

Spec == Init /\ [][Next]_cooldownVars
=============================================================================
