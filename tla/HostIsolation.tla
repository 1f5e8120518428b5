---------------------------- MODULE HostIsolation ----------------------------
(***************************************************************************)
(* The host settings of the benchmark (bench/env/isolation.py). "prepare"  *)
(* saves the original settings in a state file, changes the defaults of    *)
(* the boot loader, installs a service and regenerates the boot            *)
(* configuration; "restore" undoes this from the state file and removes    *)
(* the file last. Either command may fail or be killed between two of its  *)
(* steps, and a text file is truncated before it is written. The live      *)
(* frequency and interrupt settings are left out: a reboot resets them and *)
(* both commands ask for one. So is a loss of power that undoes writes the *)
(* commands made.                                                          *)
(***************************************************************************)
EXTENDS Naturals

VARIABLES
  isoState,     \* the state file: absent, partial or whole, and the GRUB text it saved
  isoGrub,      \* the text of /etc/default/grub
  isoBoot,      \* the text the boot configuration was generated from
  isoService,   \* the unit: absent, present or enabled
  isoPc,        \* the next step of the running command, "idle" without one
  isoText,      \* the GRUB text the command has read: to save, or to write back
  isoForced     \* a forced prepare has replaced a whole state file

isoVars == <<isoState, isoGrub, isoBoot, isoService, isoPc, isoText, isoForced>>

Texts == {"original", "isolated", "partial"}

NoState == [phase |-> "absent", grub |-> "partial"]
PartialState == [phase |-> "partial", grub |-> "partial"]

IsoInit ==
  /\ isoState = NoState /\ isoGrub = "original" /\ isoBoot = "original"
  /\ isoService = "absent" /\ isoPc = "idle" /\ isoText = "partial" /\ isoForced = FALSE

----------------------------------------------------------------------------
(* prepare. A command of systemd or the boot loader that fails raises and  *)
(* ends it, which is Abandon.                                              *)

\* prepare: the state file that exists stops it unless it is forced; the GRUB text is
\* read before anything is written.
Prepare(force) ==
  /\ isoPc = "idle" /\ (isoState.phase = "absent" \/ force)
  /\ isoPc' = "truncate_state" /\ isoText' = isoGrub
  /\ isoForced' = (isoForced \/ isoState.phase = "whole")
  /\ UNCHANGED <<isoState, isoGrub, isoBoot, isoService>>

\* The state file is written before the settings it saves are changed.
SaveState ==
  /\ \/ isoPc = "truncate_state" /\ isoPc' = "fill_state" /\ isoState' = PartialState
     \/ isoPc = "fill_state" /\ isoPc' = "truncate_grub"
        /\ isoState' = [phase |-> "whole", grub |-> isoText]
  /\ UNCHANGED <<isoGrub, isoBoot, isoService, isoText, isoForced>>

\* grub_path.write_text(new_grub)
WriteNewGrub ==
  /\ \/ isoPc = "truncate_grub" /\ isoPc' = "fill_grub" /\ isoGrub' = "partial"
     \/ isoPc = "fill_grub" /\ isoPc' = "install" /\ isoGrub' = "isolated"
  /\ UNCHANGED <<isoState, isoBoot, isoService, isoText, isoForced>>

\* write_systemd_service, then daemon-reload and enable; start changes live settings
\* only.
InstallService ==
  /\ \/ isoPc = "install" /\ isoPc' = "enable"
        /\ isoService' = IF isoService = "absent" THEN "present" ELSE isoService
     \/ isoPc = "enable" /\ isoPc' = "start" /\ isoService' = "enabled"
     \/ isoPc = "start" /\ isoPc' = "update_grub" /\ UNCHANGED isoService
  /\ UNCHANGED <<isoState, isoGrub, isoBoot, isoText, isoForced>>

\* update_grub, and the reboot of prepare unless --no-reboot is given.
FinishPrepare ==
  /\ isoPc = "update_grub" /\ isoPc' = "idle" /\ isoBoot' = isoGrub
  /\ UNCHANGED <<isoState, isoGrub, isoService, isoText, isoForced>>

----------------------------------------------------------------------------
(* restore. Without a state file it returns, and a partial one raises      *)
(* before anything is changed: neither is a step.                          *)

Restore ==
  /\ isoPc = "idle" /\ isoState.phase = "whole"
  /\ isoPc' = "empty_grub" /\ isoText' = isoState.grub
  /\ UNCHANGED <<isoState, isoGrub, isoBoot, isoService, isoForced>>

\* grub_path.write_text(state["original_grub"])
WriteOldGrub ==
  /\ \/ isoPc = "empty_grub" /\ isoPc' = "refill_grub" /\ isoGrub' = "partial"
     \/ isoPc = "refill_grub" /\ isoPc' = "disable" /\ isoGrub' = isoText
  /\ UNCHANGED <<isoState, isoBoot, isoService, isoText, isoForced>>

\* A service that exists is disabled, whatever systemctl answers, and its unit removed.
RemoveService ==
  /\ \/ /\ isoPc = "disable" /\ isoPc' = "unlink_unit"
        /\ isoService' \in {isoService, IF isoService = "absent" THEN "absent" ELSE "present"}
     \/ isoPc = "unlink_unit" /\ isoPc' = "regenerate" /\ isoService' = "absent"
  /\ UNCHANGED <<isoState, isoGrub, isoBoot, isoText, isoForced>>

\* update_grub, then the state file is unlinked. The wrong order unlinks it first.
FinishRestoreUnlinkFirst ==
  /\ \/ isoPc = "regenerate" /\ isoPc' = "unlink_state" /\ isoState' = NoState
        /\ UNCHANGED isoBoot
     \/ isoPc = "unlink_state" /\ isoPc' = "idle" /\ isoBoot' = isoGrub
        /\ UNCHANGED isoState
  /\ UNCHANGED <<isoGrub, isoService, isoText, isoForced>>

FinishRestore ==
  /\ \/ isoPc = "regenerate" /\ isoPc' = "unlink_state" /\ isoBoot' = isoGrub
        /\ UNCHANGED isoState
     \/ isoPc = "unlink_state" /\ isoPc' = "idle" /\ isoState' = NoState
        /\ UNCHANGED isoBoot
  /\ UNCHANGED <<isoGrub, isoService, isoText, isoForced>>

----------------------------------------------------------------------------
\* The command raises, is killed, or the host goes down.
Abandon ==
  /\ isoPc # "idle" /\ isoPc' = "idle"
  /\ UNCHANGED <<isoState, isoGrub, isoBoot, isoService, isoText, isoForced>>

IsoNext ==
  \/ \E force \in BOOLEAN : Prepare(force)
  \/ SaveState \/ WriteNewGrub \/ InstallService \/ FinishPrepare
  \/ Restore \/ WriteOldGrub \/ RemoveService \/ FinishRestore
  \/ Abandon

----------------------------------------------------------------------------
\* As long as any setting that outlives a reboot differs from what it was before the
\* benchmark, there is a readable state file with the original text, from which
\* restore can be repeated; so without a state file the host is as it was. This holds
\* wherever prepare and restore stop, until the operator forces a prepare over a
\* whole state file (the order of the writes in isolation.py prepare and restore).
OriginalIsKept ==
  ~isoForced =>
    \/ isoGrub = "original" /\ isoBoot = "original" /\ isoService = "absent"
    \/ isoState = [phase |-> "whole", grub |-> "original"]
=============================================================================
