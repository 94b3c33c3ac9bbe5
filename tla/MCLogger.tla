------------------------------ MODULE MCLogger ------------------------------
(***************************************************************************)
(* Instances of Logger for TLC.  MCSpec leaves out what shows nothing new:  *)
(* sinks of equal thresholds, which behave as sinks of different ones do   *)
(* when every event passes both; a configuration replaced by an equal one, *)
(* or replaced before its sink has been registered.                        *)
(***************************************************************************)
EXTENDS Logger

MCInit == Init /\ \A s, t \in Sinks : threshold[s] = threshold[t] => s = t

NewConfig(r) ==
  /\ SetConfig(r)
  /\ threshold' # threshold
  /\ reconfigured' \subseteq Registered \union churned

MCNext ==
  \/ Work /\ UNCHANGED history
  \/ \E r \in Registrars : AddSink(r) \/ RemoveSink(r) \/ NewConfig(r)

MCSpec == MCInit /\ [][MCNext]_vars
=============================================================================
