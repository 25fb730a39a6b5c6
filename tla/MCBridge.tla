------------------------------- MODULE MCBridge -------------------------------
(* A bridge with one topic in each direction, one in both and one of an earlier configuration. *)
EXTENDS Bridge
CONSTANTS tin, tout, tboth

MCConfigs ==
  [start_type : {"automatic", "lazy", "once"}, round_robin : BOOLEAN, clean_session : BOOLEAN,
   notifications : {TRUE}, attempt_unsubscribe : BOOLEAN, slow : BOOLEAN, private_understood : BOOLEAN]

MCEarlier == {{}, {tin, tout, tboth}}
==============================================================================
