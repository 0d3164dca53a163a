---------------------------- MODULE HistoryModal ----------------------------
(***************************************************************************)
(* The modal with the uptime, the incidents, the controls and the log of   *)
(* one service (frontend, components/history_modal.rs).                    *)
(*                                                                         *)
(* Answers come in any order, and an answer is written into the modal      *)
(* whatever service it shows by then.                                      *)
(***************************************************************************)
EXTENDS Naturals

CONSTANTS
  None,
  Shown,   \* services a modal is opened for
  MaxLooks \* bound: what its user does, but for closing it

VARIABLES
  modal,   \* its signals: target, summary, message, logs, lines and source
  calls,   \* requests not answered: what was asked, of which service
  late,    \* history: what was written for a service that is not the target
  looks

modalVars == <<modal, calls, late, looks>>

Look == looks < MaxLooks /\ looks' = looks + 1

-----------------------------------------------------------------------------
(* Mutant: the last service's are kept.                                    *)
Kept(m) == m

(* What is forgotten when the modal opens, and when it closes.             *)
Blank(m) == [m EXCEPT !.summary = None, !.message = None, !.logs = FALSE]

(* The effect that owns the EventSource: whenever logs_open or the target  *)
(* changes the old one is closed, and the lines start anew.                *)
Tailed(m) ==
  IF m.logs /\ m.target # None THEN [m EXCEPT !.source = m.target, !.lines = {}]
                               ELSE [m EXCEPT !.source = None]

Late(what, i) == IF i = modal.target THEN late \ {what} ELSE late \cup {what}

OpenModal(i) ==
  /\ Look
  /\ modal.target = None
  /\ modal' = Tailed([Blank(modal) EXCEPT !.target = i])
  /\ calls' = calls \cup {<<"open", i>>}
  /\ late' = {}

CloseModal ==
  /\ modal.target # None
  /\ modal' = Tailed([Blank(modal) EXCEPT !.target = None])
  /\ UNCHANGED <<calls, late, looks>>

(* fetch_uptime_summary, when the modal opens: an answer that is no        *)
(* summary empties the modal.                                              *)
OpenAnswered(i) ==
  /\ <<"open", i>> \in calls
  /\ calls' = calls \ {<<"open", i>>}
  /\ \E answer \in {i, None} : modal' = [modal EXCEPT !.summary = answer]
  /\ late' = Late("summary", i)
  /\ UNCHANGED looks

(* Start, stop or restart; one at a time, for the buttons are disabled.    *)
Busy == \E c \in calls : c[1] = "control"

FireControl ==
  /\ Look
  /\ modal.target # None /\ ~Busy
  /\ modal' = [modal EXCEPT !.message = None]
  /\ calls' = calls \cup {<<"control", modal.target>>}
  /\ late' = late \ {"message"}

(* The outcome is told, and the summary is fetched again.                  *)
ControlAnswered(i) ==
  /\ <<"control", i>> \in calls
  /\ calls' = (calls \ {<<"control", i>>}) \cup {<<"again", i>>}
  /\ modal' = [modal EXCEPT !.message = i]
  /\ late' = Late("message", i)
  /\ UNCHANGED looks

(* Here an answer that is no summary changes nothing.                      *)
AgainAnswered(i) ==
  /\ <<"again", i>> \in calls
  /\ calls' = calls \ {<<"again", i>>}
  /\ \/ modal' = [modal EXCEPT !.summary = i] /\ late' = Late("summary", i)
     \/ UNCHANGED <<modal, late>>
  /\ UNCHANGED looks

ToggleLogs ==
  /\ Look
  /\ modal.target # None
  /\ modal' = Tailed([modal EXCEPT !.logs = ~@])
  /\ UNCHANGED <<calls, late>>

LogLine ==
  /\ modal.source # None
  /\ modal' = [modal EXCEPT !.lines = @ \cup {modal.source}]
  /\ UNCHANGED <<calls, late, looks>>

-----------------------------------------------------------------------------
ModalInit ==
  /\ modal = [target |-> None, summary |-> None, message |-> None,
              logs |-> FALSE, lines |-> {}, source |-> None]
  /\ calls = {} /\ late = {} /\ looks = 0

(* What the user does, and what comes of it.                               *)
ModalAct == (\E i \in Shown : OpenModal(i)) \/ FireControl \/ ToggleLogs

ModalGoesOn ==
  \/ CloseModal \/ LogLine
  \/ \E i \in Shown : OpenAnswered(i) \/ ControlAnswered(i) \/ AgainAnswered(i)

-----------------------------------------------------------------------------
(* What the modal shows is about the service it was opened for, "for one   *)
(* service" (history_modal.rs:116): the log always, as no EventSource      *)
(* outlives the service it was opened for; the summary and the message     *)
(* unless an answer for a service looked at before has come since, which   *)
(* nothing keeps from being written (history_modal.rs:146, 219).           *)
ShowsTarget ==
  modal.target # None =>
    /\ modal.source \in {None, modal.target}
    /\ modal.logs => modal.lines \subseteq {modal.target}
    /\ "summary" \in late \/ modal.summary \in {None, modal.target}
    /\ "message" \in late \/ modal.message \in {None, modal.target}
=============================================================================
