---------------------------- MODULE ManagersProps ----------------------------
(***************************************************************************)
(* What must hold of the main manager and its managers.                    *)
(***************************************************************************)
EXTENDS Managers

\* A number handed to a user ("their channels numbers are position in this
\* array") goes on naming what it was given for until somebody deletes it,
\* whatever is added, refused and deleted around it.
HandlesStayGood ==
  \A h \in told :
    /\ IsOpen(m_acManagers, h.man)
    /\ LET man == m_acManagers[h.man + 1]
       IN IF h.chan = -1 THEN man.kind = h.what
          ELSE IsOpen(man.chans, h.chan) /\ man.chans[h.chan + 1].what = h.what

\* "Only one user can connect to the manager at any time": with lists that are
\* reloaded, and devices plugged in and out, between the requests of different
\* users, a user who asked for the list gets the device seen at that place.
OpensWhatWasShown ==
  [][\A n \in DOMAIN m_acManagers :
       LET given == told' \ told
       IN /\ request.eType = "eSet" /\ request.to = n - 1
          /\ m_acManagers[n] # NULL /\ m_acManagers[n].kind = "eFTDIMan"
          /\ shown # << >>
          => \A h \in given : h.what = shown[request.nChan + 1]]_vars

\* "When shutting down, first the pipe is disconnected": in the end everything
\* was deleted, and once, though a deletion may be under way when m_hClose is
\* set: unless the pipe thread had to be terminated within it.
DeletedOnce ==
  /\ pc # "killed" => \A o \in DOMAIN deleted : deleted[o] <= 1
  /\ mainPc = "done" => \A o \in DOMAIN deleted : deleted[o] >= 1

-----------------------------------------------------------------------------
(* What a comment says, and the code does not do *)

\* "Every device which has access to a comm and might have enqueued data to
\* the comm .. cannot be deleted while that comm is not stopped": the comm
\* would call Result of a deleted device.
EnqueuedDevicesExist ==
  \A n \in DOMAIN outbox : outbox[n].pDevice # 0 => deleted[outbox[n].pDevice] = 0
=============================================================================
