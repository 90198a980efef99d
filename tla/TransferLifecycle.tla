------------------------- MODULE TransferLifecycle -------------------------
(***************************************************************************)
(* What the control plane promises of a transfer: its status moves along   *)
(* the table of valid transitions, one transfer at a time, and a device is *)
(* told of a status only once it has been reached, at most once, and of an *)
(* outcome only if it is the one that stands.                              *)
(***************************************************************************)
EXTENDS Naturals, Sequences

CONSTANTS Transfers, Devices

VARIABLES status, told

vars == <<status, told>>

Outcomes == {"completed", "rejected", "expired", "cancelled", "failed"}

Endings == {"cancelled", "failed", "expired"}

\* _VALID_TRANSITIONS, with the insertion of the row as its first entry.
ValidTargets(s) ==
    CASE s = "none" -> {"offered"}
      [] s = "offered" -> {"accepted", "rejected", "expired", "cancelled"}
      [] s = "accepted" -> Endings \cup {"negotiating"}
      [] s = "negotiating" -> Endings \cup {"connected"}
      [] s = "connected" -> Endings \cup {"transferring"}
      [] s = "transferring" -> Endings \cup {"completed"}
      [] OTHER -> {}

\* A transfer whose status is now `s` may have been in status `past`.
MayFollow(past, s) ==
    CASE past = "offered" -> s # "none"
      [] past = "accepted" -> s \notin {"none", "offered"}
      [] past \in Outcomes -> s = past
      [] OTHER -> FALSE

Init ==
    /\ status = [t \in Transfers |-> "none"]
    /\ told = [t \in Transfers |-> [d \in Devices |-> <<>>]]

Move(t) ==
    /\ \E s \in ValidTargets(status[t]) : status' = [status EXCEPT ![t] = s]
    /\ UNCHANGED told

Tell(t, d) ==
    /\ \E past \in Outcomes \cup {"offered", "accepted"} :
         /\ MayFollow(past, status[t])
         /\ \A i \in DOMAIN told[t][d] : told[t][d][i] # past
         /\ told' = [told EXCEPT ![t][d] = Append(@, past)]
    /\ UNCHANGED status

Next ==
    \/ \E t \in Transfers : Move(t)
    \/ \E t \in Transfers, d \in Devices : Tell(t, d)

Spec == Init /\ [][Next]_vars

=============================================================================
