-------------------------- MODULE PcoAcquisition --------------------------
(* What an acquisition promises to LIMA, on both platforms: a start passes  *)
(* only when the started flag is clear; one run at a time, begun and kept   *)
(* under the flag; a run clears the flag when it ends; a stop returns only  *)
(* when the flag is clear, so that nothing runs, and nothing begins before  *)
(* the next start.                                                          *)
CONSTANT Runs       \* the identities of the threads that run acquisitions

VARIABLES flag,     \* SyncCtrlObj's started flag
          runs,     \* the acquisitions at work
          call      \* what the client waits for: "none", "start", "stop", or "dead"

vars == <<flag, runs, call>>

Init == flag = FALSE /\ runs = {} /\ call = "none"

Start == call = "none" /\ ~flag /\ call' = "start" /\ UNCHANGED <<flag, runs>>

(* the start sets the flag, before and after the run begins; it clears it   *)
(* only when nothing runs                                                   *)
Flag ==
    /\ call = "start" /\ call' \in {"start", "none"}
    /\ flag' \in BOOLEAN /\ (flag' \/ runs = {})
    /\ UNCHANGED runs

Begin == flag /\ runs = {} /\ (\E r \in Runs : runs' = {r}) /\ UNCHANGED <<flag, call>>

End == runs # {} /\ runs' = {} /\ flag' = FALSE /\ UNCHANGED call

Stop == call = "none" /\ call' = "stop" /\ UNCHANGED <<flag, runs>>

StopReturn == call = "stop" /\ ~flag /\ call' = "none" /\ UNCHANGED <<flag, runs>>

Die == call' = "dead" /\ runs' = {} /\ UNCHANGED flag

Next == Start \/ Flag \/ Begin \/ End \/ Stop \/ StopReturn \/ Die

Spec == Init /\ [][Next]_vars

----------------------------------------------------------------------------
(* The hardware is quiet when the flag is clear, and runs one acquisition.  *)
Quiet == (runs # {} => flag) /\ (\A r, s \in runs : r = s)

(* When stopAcq returns, nothing runs.                                      *)
StopIsSync == [][call = "stop" /\ call' = "none" => runs = {} /\ runs' = {}]_vars

===========================================================================
