----------------------------- MODULE MCProcess ------------------------------
(***************************************************************************)
(* Instances of Process and of Signals.  A behaviour is about one of them: *)
(* the one whose menu of signals is empty is about Process.                *)
(***************************************************************************)
EXTENDS Process, Signals

All == {"dfl", "ign", "handler"}
Either == BOOLEAN
FirstSlot == {INIT + 1}

\* Process 3 is a child of 2.  SIGUSR1 comes before SIGCHLD, SIGVTALRM after it.
MCParent == [p \in SigProcs |-> IF p = 3 THEN 2 ELSE 0]
SIGUSR1   == 16
SIGVTALRM == 28

Action(h, mask) == [h |-> h, mask |-> mask]
Caught  == {Action("handler", {}), Action("handler", Sigs)}
Actions     == Caught \cup {Action("ign", {})}
NoMenu  == SigMenu(0, {}, {}, {}, {}, {})
Masking  == SigMenu(5, {"kill", "pause", "suspend", "mask", "action"}, {SIGUSR1, SIGVTALRM}, {{}, {SIGUSR1}}, Actions, {})
Children == SigMenu(5, {"kill", "pause", "action", "exit", "wait"}, {SIGCHLD, SIGVTALRM}, {}, Actions, {})
Users    == SigMenu(4, {"kill", "setuid", "exec", "action", "pause"}, {SIGKILL, SIGUSR1}, {}, Caught, {0, 5, 6})
MCMenus  == {NoMenu, Masking, Children, Users}

MCIds == {[p \in SigProcs |-> [uid |-> IF p = 2 THEN 5 ELSE id, pgrp |-> 7]] : id \in {0, 6}}

MCInit == /\ Init
          /\ \E ids \in MCIds : SigInit(ids) /\ (sigmenu = NoMenu => ids[3].uid = 0)
MCNext == \/ sigmenu = NoMenu /\ Next /\ UNCHANGED sigVars
          \/ sigmenu # NoMenu /\ SigNext /\ UNCHANGED vars
MCSpec == MCInit /\ [][MCNext]_<<vars, sigVars>>

\* No one sleeps over what it waits for: in waitpid() for a death, in pause() for a
\* signal; and masks, ignored signals and SIGKILL are what they should be.
SleepersInformed == WaiterInformed /\ SignalsKept
=============================================================================
