-------------------------- MODULE PcoShutter_proofs --------------------------
(* Proofs about PcoShutter for any shutter modes and any number of threads.  *)
EXTENDS PcoShutter, TLAPS

(* Only a request that found another thread alive leaves two of them.        *)
OneThread ==
    ~overlapped => \A s, t \in Switches : Active(s) /\ Active(t) => s = t

(* No thread is alive during a preparation and a run, but for the exceptions *)
(* of RunKeepsCamera, so what prepareAcq set up stays.                       *)
Seen == late \/ overlapped
Preparing == call \in {"arm", "buffers", "image", "ready"}
Undisturbed == Preparing \/ run => Seen \/ \A s \in Switches : ~Active(s)
PreparedSoFar ==
    /\ Preparing => ~run
    /\ call \in {"buffers", "image", "ready"} => armed \/ Seen
    /\ call = "image" /\ open => bufs \/ Seen
    /\ call = "ready" => bufs \/ Seen

(* A thread alone has read the mode accepted last, and later set it.         *)
ModeFollows ==
    ~overlapped /\ ~stuck =>
        /\ (\A s \in Switches : ~Active(s)) => setup = shutter
        /\ \A s \in Switches : sw[s] \in {"get", "setup"} => req[s] = shutter
        /\ \A s \in Switches : sw[s] \in {"reboot", "free", "close", "init"} => setup = shutter

IInv ==
    /\ TypeOK /\ OneThread /\ SwitchIsConfig
    /\ Undisturbed /\ PreparedSoFar /\ RunKeepsCamera /\ ModeFollows

LEMMA InitIInv == Init => IInv
BY SetupsAssumption DEF Init, IInv, TypeOK, Places, OneThread, SwitchIsConfig, Undisturbed,
   PreparedSoFar, RunKeepsCamera, ModeFollows, Preparing, Seen, Active

(* The client's calls change no thread but the one a request begins.         *)
LEMMA ClientKeeps == IInv /\ Client => IInv'
<1> SUFFICES ASSUME IInv, Client PROVE IInv'
    OBVIOUS
<1> USE DEF IInv, TypeOK, Places, OneThread, SwitchIsConfig, Undisturbed, PreparedSoFar,
            RunKeepsCamera, ModeFollows, Preparing, Seen, Active, camera, threads
<1>1. CASE Prepare
  BY <1>1 DEF Prepare
<1>2. CASE Arm
  BY <1>2 DEF Arm
<1>3. CASE AllocBuffers
  BY <1>3 DEF AllocBuffers
<1>4. CASE SetImageParameters
  BY <1>4 DEF SetImageParameters
<1>5. CASE PrepareThrows
  BY <1>5 DEF PrepareThrows
<1>6. CASE StartAcq
  BY <1>6 DEF StartAcq
<1>7. CASE RunEnd
  BY <1>7 DEF RunEnd
<1>8. CASE Reset
  BY <1>8 DEF Reset
<1>9. CASE \E v \in Setups : SetShutter(v)
  <2>1. PICK v \in Setups : SetShutter(v)
    BY <1>9
  <2>2. PICK n \in Switches : ~Active(n) /\ sw' = [sw EXCEPT ![n] = "begin"]
    BY <2>1 DEF SetShutter
  <2>3. /\ call \in {"idle", "ready"} /\ shutter' = v
        /\ overlapped' = (\E s \in Switches : Active(s))
        /\ late' = (late \/ call = "ready" \/ run)
        /\ UNCHANGED <<call, run, camera, config, req, stuck>>
    BY <2>1 DEF SetShutter
  <2>4. \A s \in Switches : sw'[s] = IF s = n THEN "begin" ELSE sw[s]
    BY <2>2
  <2>5. TypeOK'
    BY <2>2, <2>3
  <2>6. OneThread' /\ SwitchIsConfig' /\ Undisturbed'
    BY <2>2, <2>3, <2>4
  <2>7. PreparedSoFar' /\ RunKeepsCamera'
    BY <2>3
  <2>8. ModeFollows'
    BY <2>2, <2>3, <2>4
  <2> QED BY <2>5, <2>6, <2>7, <2>8
<1> QED BY <1>1, <1>2, <1>3, <1>4, <1>5, <1>6, <1>7, <1>8, <1>9 DEF Client

(* What a step of a shutter thread that does not throw has in common: it     *)
(* moves that thread alone, and the client stays where it is.                *)
LEMMA SwitchMoves ==
    ASSUME NEW s \in Switches, TypeOK, Switch(s), ~SwitchThrows(s)
    PROVE  /\ Active(s) /\ sw[s] \in Places
           /\ \A t \in Switches : t # s => sw'[t] = sw[t] /\ req'[t] = req[t]
           /\ UNCHANGED client
BY DEF Switch, SwitchStep, SwitchBegin, SwitchNew, SwitchSame, SwitchSetup, SwitchReboot,
       SwitchFree, SwitchClose, SwitchCloseFails, SwitchInit, TypeOK, Places, Active, client

LEMMA SwitchKeepsType ==
    ASSUME NEW s \in Switches, TypeOK, Switch(s)
    PROVE  TypeOK'
<1> USE DEF TypeOK, Places, camera, threads, client, SwitchStep
<1>1. CASE SwitchBegin(s)
  BY <1>1 DEF SwitchBegin
<1>2. CASE SwitchNew(s)
  BY <1>2 DEF SwitchNew
<1>3. CASE SwitchSame(s)
  BY <1>3 DEF SwitchSame
<1>4. CASE SwitchSetup(s)
  BY <1>4 DEF SwitchSetup
<1>5. CASE SwitchReboot(s)
  BY <1>5 DEF SwitchReboot
<1>6. CASE SwitchFree(s)
  BY <1>6 DEF SwitchFree
<1>7. CASE SwitchClose(s)
  BY <1>7 DEF SwitchClose
<1>8. CASE SwitchCloseFails(s)
  BY <1>8 DEF SwitchCloseFails
<1>9. CASE SwitchInit(s)
  BY <1>9 DEF SwitchInit
<1>10. CASE SwitchThrows(s)
  BY <1>10 DEF SwitchThrows, Throws
<1> QED BY <1>1, <1>2, <1>3, <1>4, <1>5, <1>6, <1>7, <1>8, <1>9, <1>10 DEF Switch

(* A thread works on the camera only while no preparation and no run counts  *)
(* on it; what its step does to the status and the mode is looked at one     *)
(* step at a time, the other threads being gone unless overlapped.           *)
LEMMA SwitchKeeps ==
    ASSUME NEW s \in Switches, IInv, Switch(s), ~SwitchThrows(s)
    PROVE  IInv'
<1>1. /\ Active(s) /\ sw[s] \in Places
      /\ \A t \in Switches : t # s => sw'[t] = sw[t] /\ req'[t] = req[t]
      /\ UNCHANGED client
  BY SwitchMoves DEF IInv
<1>2. TypeOK'
  BY SwitchKeepsType DEF IInv
<1>3. ~overlapped => \A t \in Switches : t # s => sw[t] = "none" /\ sw'[t] = "none"
  BY <1>1 DEF IInv, OneThread, Active
<1>4. OneThread'
  BY <1>1, <1>3 DEF OneThread, Active, client
<1>5. (Preparing \/ run => Seen) /\ (Preparing => ~run)
  BY <1>1 DEF IInv, Undisturbed, PreparedSoFar
<1>6. Undisturbed' /\ PreparedSoFar' /\ RunKeepsCamera'
  BY <1>1, <1>5 DEF Undisturbed, PreparedSoFar, RunKeepsCamera, Preparing, Seen, client
<1>7. SwitchIsConfig' /\ ModeFollows'
  <2> USE DEF IInv, TypeOK, Places, SwitchIsConfig, ModeFollows, Active, camera, client,
              SwitchStep
  <2>1. CASE overlapped
    BY <1>1, <2>1
  <2>2. CASE ~overlapped
    <3> USE <1>1, <1>3, <2>2
    <3>1. CASE SwitchBegin(s)
      BY <3>1 DEF SwitchBegin
    <3>2. CASE SwitchNew(s)
      BY <3>2 DEF SwitchNew
    <3>3. CASE SwitchSame(s)
      BY <3>3 DEF SwitchSame
    <3>4. CASE SwitchSetup(s)
      BY <3>4 DEF SwitchSetup
    <3>5. CASE SwitchReboot(s)
      BY <3>5 DEF SwitchReboot
    <3>6. CASE SwitchFree(s)
      BY <3>6 DEF SwitchFree
    <3>7. CASE SwitchClose(s)
      BY <3>7 DEF SwitchClose
    <3>8. CASE SwitchCloseFails(s)
      BY <3>8 DEF SwitchCloseFails
    <3>9. CASE SwitchInit(s)
      BY <3>9 DEF SwitchInit
    <3> QED BY <3>1, <3>2, <3>3, <3>4, <3>5, <3>6, <3>7, <3>8, <3>9 DEF Switch
  <2> QED BY <2>1, <2>2
<1> QED BY <1>2, <1>4, <1>6, <1>7 DEF IInv

LEMMA NextKeeps == IInv /\ [Next]_vars => IInv'
<1> SUFFICES ASSUME IInv, [Next]_vars PROVE IInv'
    OBVIOUS
<1> USE DEF IInv, TypeOK, OneThread, SwitchIsConfig, Undisturbed, PreparedSoFar,
            RunKeepsCamera, ModeFollows, Preparing, Seen, Active, camera, threads
<1>1. CASE Client
  BY <1>1, ClientKeeps
<1>2. CASE Throws
  BY <1>2 DEF Throws
<1>3. ASSUME NEW s \in Switches, Switch(s) PROVE IInv'
  <2>1. CASE SwitchThrows(s)
    BY <1>2, <2>1 DEF SwitchThrows
  <2>2. CASE ~SwitchThrows(s)
    BY <1>3, <2>2, SwitchKeeps
  <2> QED BY <2>1, <2>2
<1>4. CASE UNCHANGED vars
  BY <1>4 DEF vars
<1> QED BY <1>1, <1>2, <1>3, <1>4 DEF Next, RunThrows

(* Every variable keeps to its domain.                                       *)
THEOREM TypeCorrect == Spec => []TypeOK
<1>1. IInv => TypeOK
  BY DEF IInv
<1> QED BY <1>1, InitIInv, NextKeeps, PTL DEF Spec

(* The status AcqConfig covers the work of a shutter thread that is alone.   *)
THEOREM SwitchIsConfigAlways == Spec => []SwitchIsConfig
<1>1. IInv => SwitchIsConfig
  BY DEF IInv
<1> QED BY <1>1, InitIInv, NextKeeps, PTL DEF Spec

(* No shutter change the status told of takes the camera or the buffers from *)
(* a run: m_config is enough to keep prepareAcq and the reboot apart.        *)
THEOREM RunKeepsCameraAlways == Spec => []RunKeepsCamera
<1>1. IInv => RunKeepsCamera
  BY DEF IInv
<1> QED BY <1>1, InitIInv, NextKeeps, PTL DEF Spec

(* The camera ends up with the shutter mode accepted last.                   *)
THEOREM ModeReachedAlways == Spec => []ModeReached
<1>1. IInv => ModeReached
  BY DEF IInv, ModeFollows, ModeReached
<1> QED BY <1>1, InitIInv, NextKeeps, PTL DEF Spec
=============================================================================
