-------------------------------- MODULE Alerts --------------------------------
(***************************************************************************)
(* AlertsService (alerts/service.py): the alerts table, emit_alert with    *)
(* its deduplication, and the operator who acknowledges and resolves.      *)
(*                                                                         *)
(* emit_alert is called by threads, several at once.  It looks for an      *)
(* alert of the same identity that is still new and, if there is none,     *)
(* inserts one: two steps.                                                 *)
(*                                                                         *)
(* Data abstracted: an alert's identity is its device and its title (the   *)
(* category goes with the title); its id is that of the event it was       *)
(* raised for, the finding of its finding_id.                              *)
(***************************************************************************)
EXTENDS Naturals, FiniteSets

CONSTANTS
  Threads,  \* threads that emit alerts
  Devices,  \* device ids
  Titles,   \* titles
  Faults    \* TRUE: commits may fail and processes stop

ASSUME AlertsAssumption == Faults \in BOOLEAN

VARIABLES
  alerts,  \* rows of the alerts table
  emit     \* what each thread holds in emit_alert()'s locals

alertVars == <<alerts, emit>>

AlertStatus == {"new", "acknowledged", "resolved"}
Alert == [id : Nat, device : Devices, title : Titles, status : AlertStatus]

NotEmitting == [pc |-> "none"]
Emission == [pc : {"lookup", "insert"}, id : Nat, device : Devices, title : Titles]

AlertsTypeOK ==
  /\ alerts \subseteq Alert
  /\ emit \in [Threads -> {NotEmitting} \cup Emission]

AlertsInit ==
  /\ alerts = {}
  /\ emit = [t \in Threads |-> NotEmitting]

-----------------------------------------------------------------------------

BeginEmit(t, id, device, title) ==
  emit' = [emit EXCEPT ![t] = [pc |-> "lookup", id |-> id, device |-> device, title |-> title]]
EndEmit(t) == emit' = [emit EXCEPT ![t] = NotEmitting]

SameAlert(t, a) == a.device = emit[t].device /\ a.title = emit[t].title

\* (mutants) an alert of the device is enough, or any open one, to hold a new one back
HoldsBackOnDevice(t, a) == a.device = emit[t].device /\ a.status = "new"
HoldsBackNothing(t, a) == FALSE

HoldsBack(t, a) == SameAlert(t, a) /\ a.status = "new"

LookupAlert(t) ==
  /\ emit[t].pc = "lookup"
  /\ \/ (\E a \in alerts : HoldsBack(t, a)) /\ EndEmit(t)
     \/ (\A a \in alerts : ~HoldsBack(t, a)) /\ emit' = [emit EXCEPT ![t].pc = "insert"]
  /\ UNCHANGED alerts

InsertAlert(t) ==
  /\ emit[t].pc = "insert"
  /\ alerts' = alerts \cup
       {[id |-> emit[t].id, device |-> emit[t].device, title |-> emit[t].title, status |-> "new"]}
  /\ EndEmit(t)

\* The database refuses; who called emit_alert logs the exception and goes on.
EmitFails(t) ==
  /\ Faults
  /\ emit[t] # NotEmitting
  /\ EndEmit(t)
  /\ UNCHANGED alerts

EmitStep(t) == LookupAlert(t) \/ InsertAlert(t) \/ EmitFails(t)

\* acknowledge and resolve take an alert from any status to theirs.
SetAlertStatus(a, status) ==
  /\ a \in alerts
  /\ status \in {"acknowledged", "resolved"}
  /\ alerts' = (alerts \ {a}) \cup {[a EXCEPT !.status = status]}
  /\ UNCHANGED emit
=============================================================================
