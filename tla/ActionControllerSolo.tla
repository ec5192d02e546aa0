------------------------- MODULE ActionControllerSolo -------------------------
(***************************************************************************)
(* The operator driven by one caller that only ever starts it, which is    *)
(* how run_controller uses it: crashes, failed API calls and users are     *)
(* all still there, a second reconciler is not.  Under that assumption the *)
(* operator implements ActionLifecycle.                                    *)
(***************************************************************************)
EXTENDS ActionController

ASSUME SoloAssumption ==
  /\ Requests \subseteq {"start"}
  /\ \A c, d \in Callers : c = d

(* No two reconcilers are ever at work at once, across any number of       *)
(* starts and crashes of the process.                                      *)
OneReconciler == \A s, t \in Threads : pc[s] # "off" /\ pc[t] # "off" => s = t
===============================================================================
