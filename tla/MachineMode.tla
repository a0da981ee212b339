----------------------------- MODULE MachineMode -----------------------------
(***************************************************************************)
(* What a filter unit promises: its cores are used by runs or by virtual   *)
(* machines, never by both, and the mode it reports is true.  The mode is  *)
(* the state of the cloud in the box file, or "down" while hltd starts.    *)
(***************************************************************************)
VARIABLES mode, vm, busy \* busy: some process of a run computes
modeVars == <<mode, vm, busy>>

Hlt == {"off", "resourcesMasked"}
Modes == Hlt \union {"starting", "on", "stopping", "down"}
ModeTypeOK == mode \in Modes /\ vm \in {"off", "on", "stopping"} /\ busy \in BOOLEAN

ModeInit == ModeTypeOK /\ mode = "down" /\ ~busy

\* What may follow what, beside a restart. A switch to the cloud that was taken back
\* and is asked for again may be through already: it is started once more.
After(m) ==
  CASE m \in Hlt -> Hlt \union {"starting"}
    [] m = "starting" -> Hlt \union {"on"}
    [] m = "on" -> {"stopping", "starting"}
    [] m = "stopping" -> Hlt \union {"on"}
    [] m = "down" -> {}

\* hltd finds out what the machine is used for, and sees that it is used for that.
Restart == mode' = "down" /\ ~busy' /\ vm' \in {vm, "off"}
Started == /\ mode = "down" /\ mode' \in {"down", "off", "on"}
           /\ mode' = "off" => vm' # "on"
           /\ vm' \in {"off", "on", "stopping"} /\ UNCHANGED busy

\* The cores are for the cloud when the runs have ended, and for runs when the
\* virtual machines are gone.
Switch ==
  /\ mode' \in After(mode) \ {mode}
  /\ mode' = "on" => ~busy
  /\ mode = "stopping" /\ mode' \in Hlt => vm = "off"
  /\ UNCHANGED <<vm, busy>>

\* No virtual machine runs beside the processes of a run: neither begins beside the other.
StartWork == /\ ~busy /\ mode \in Hlt \union {"starting"} /\ vm # "on"
             /\ busy' /\ UNCHANGED <<mode, vm>>
EndWork == busy /\ ~busy' /\ UNCHANGED <<mode, vm>>
Ignite == /\ vm # "on" /\ ~busy /\ mode \in {"starting", "on", "stopping"}
          /\ vm' = "on" /\ UNCHANGED <<mode, busy>>
Extinguish == /\ <<vm, vm'>> \in {<<"on", "stopping">>, <<"stopping", "off">>}
              /\ UNCHANGED <<mode, busy>>

ModeNext == Restart \/ Started \/ Switch \/ StartWork \/ EndWork \/ Ignite \/ Extinguish
ModeSpec == ModeInit /\ [][ModeNext]_modeVars
=============================================================================
