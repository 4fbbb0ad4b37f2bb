----------------------------- MODULE StatusBoard -----------------------------
(***************************************************************************)
(* What the backend promises of a monitor's status, whoever reports it and *)
(* in whatever order it writes: a status to report is decided on, the row, *)
(* the newest check result and the newest alert each move to it, and the   *)
(* report is over only when all three have.  Nothing is promised of a      *)
(* monitor that was given up, because its writers overlapped, failed or    *)
(* crashed.                                                                *)
(***************************************************************************)
CONSTANTS Monitor, Status

VARIABLES
  board,   \* [Monitor -> what the three places tell and what is being reported]
  givenUp  \* SUBSET Monitor

\* `report' is the set of the statuses that are being reported, at most one.
Entry == [row : Status, result : Status, alert : Status, report : SUBSET Status]

Init ==
  /\ givenUp = {}
  /\ \E s \in Status :
       board = [m \in Monitor |-> [row |-> s, result |-> s, alert |-> s, report |-> {}]]

\* The entry of a monitor is e before the step and f after it.
Decide(e, f) ==
  e.report = {} /\ \E s \in Status : f = [e EXCEPT !.report = {s}]

Proceed(e, f) ==
  \E s \in e.report :
    /\ f.row \in {e.row, s} /\ f.result \in {e.result, s} /\ f.alert \in {e.alert, s}
    /\ \/ f.report = e.report
       \/ f.report = {} /\ f.row = s /\ f.result = s /\ f.alert = s

\* Steps of different monitors may coincide.
Next ==
  /\ givenUp \subseteq givenUp'
  /\ board' \in [Monitor -> Entry]
  /\ \A m \in Monitor \ givenUp' :
       \/ board'[m] = board[m]
       \/ Decide(board[m], board'[m])
       \/ Proceed(board[m], board'[m])

Spec == Init /\ [][Next]_<<board, givenUp>>
=============================================================================
