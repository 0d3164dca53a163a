------------------------------ MODULE MCAlerts ------------------------------
(* The notification loop on small instances.  Two thresholds, of which one *)
(* is the default, let a rule change move an outage from below to above    *)
(* the limit; a third would add no new order between count and threshold.  *)
(* One service is enough for the rules: services share only the queue and  *)
(* the two settings rows.                                                  *)
EXTENDS Alerts

MCThresholds == {DefaultThreshold, 3}
MCIntervals  == {DefaultInterval, 1}
=============================================================================
