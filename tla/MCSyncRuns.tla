---------------------------- MODULE MCSyncRuns ----------------------------
(***************************************************************************)
(* SyncRuns for an installation with one schedule, which runs everything,  *)
(* or none yet.                                                            *)
(***************************************************************************)
EXTENDS SyncRuns

MCInit == Init /\ \A s \in Schedules : \/ schedules[s] = NoSchedule
                                       \/ /\ Enabled(s) /\ schedules[s].parts = Kinds
                                          /\ schedules[s].time = CHOOSE t \in Times : TRUE

MCSpec == MCInit /\ [][Next]_vars /\ Fairness
=============================================================================
