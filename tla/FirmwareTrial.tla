---------------------------- MODULE FirmwareTrial ----------------------------
(***************************************************************************)
(* The panel's own firmware: a new build written into the slot that does   *)
(* not run, its first start on trial, and what the starts after it report. *)
(*                                                                         *)
(* fw_install.c writes the slot and fw_ota.c names it; the bootloader      *)
(* starts it once on trial, and a reset before it is kept starts the build *)
(* before it.  fw_trial.c decides from the screen loop when it is kept,    *)
(* fw_boot.c settles a start and reads the note the installer left.  The   *)
(* panel may panic, restart or lose its power between any two steps.       *)
(*                                                                         *)
(* The bootloader and esp_ota_ops are external: a new build is started     *)
(* once, a second start finds it pending and aborts it, and a slot whose   *)
(* image does not verify is passed over.                                   *)
(***************************************************************************)
EXTENDS Naturals, FiniteSets

Slots == {"A", "B"}
Other(s) == CHOOSE t \in Slots : t # s

\* The steps of FW_TRIAL_ALL; the card and the settings are marked together.
Steps == {"start", "control", "logger", "frame", "tick"}

VARIABLES
  image,     \* what each slot holds: a whole image or a part of one
  ota,       \* otadata: each slot's state
  named,     \* and the slot that starts
  note,      \* the restart note in NVS
  up,        \* the slot that runs, or "off"
  stage,     \* of the start: "boot", "tasks", "loop", and "stuck" without touch
  trial,     \* s_trial, and whether the bound's time has come
  tasks,     \* s_trial_control_ran, s_trial_logger_ran
  quiet,     \* the bench can take a flash write
  install,   \* the install under way
  said,      \* what this start's check found
  untold     \* ghost: a noted build was lost and its note not erased since

flash == <<image, ota, named, note>>
start == <<up, stage, trial, tasks>>
vars == <<flash, start, quiet, install, said, untold>>

NoTrial == [done |-> {}, bound |-> FALSE, settled |-> TRUE, late |-> FALSE]

-----------------------------------------------------------------------------
(* The bootloader. *)

\* A pending build was started before and not kept.
Picked ==
  IF image[named] = "whole" /\ ota[named] \in {"new", "valid"} THEN named ELSE Other(named)

Boots ==
  /\ up = "off"
  /\ up' = Picked /\ stage' = "boot"
  /\ ota' = [s \in Slots |->
               CASE s = Picked /\ ota[s] = "new" -> "pending"
                 [] s = named /\ ota[s] = "pending" -> "aborted"
                 [] OTHER -> ota[s]]
  /\ untold' = (untold \/ (ota[named] = "pending" /\ note = "found"))
  /\ trial' = [NoTrial EXCEPT !.settled = FALSE]
  /\ tasks' = {} /\ quiet' = TRUE /\ said' = "nothing"
  /\ UNCHANGED <<image, named, note, install>>

Pending == ota[up] = "pending"
Off == up' = "off" /\ stage' = "boot" /\ trial' = NoTrial /\ tasks' = {} /\ install' = "none"

\* A panic, a watchdog, a restart or a power cut.
Resets ==
  /\ up # "off"
  /\ Off
  /\ UNCHANGED <<flash, quiet, said, untold>>

-----------------------------------------------------------------------------
(* fw_boot.c: a start settled. *)

\* The note is erased once per start; NVS may refuse.
NoteErased ==
  \/ note' = "none" /\ untold' = FALSE
  \/ note' = note /\ UNCHANGED untold

\* A start that is no trial: a slot marked invalid is what the note is about.
\* A plausible bug: the mark alone is.
RolledBackByMark == \E s \in Slots : ota[s] = "aborted"
RolledBack == note = "found" /\ \E s \in Slots : ota[s] = "aborted"

SettledNormally ==
  /\ said' = IF RolledBack THEN "rolledback" ELSE "normal"
  /\ NoteErased
  /\ UNCHANGED ota

\* A trial kept: otadata may not be written, and the next start goes back.
SettledKept ==
  /\ \/ ota' = [ota EXCEPT ![up] = "valid"] /\ said' = "updated"
     \/ ota' = ota /\ said' = "unconfirmed"
  /\ NoteErased

\* panel_trial_begin(), with the display and touch up or not.  A trial without
\* them goes back: marked invalid if otadata can be written, and restarted.
TrialBegins(uiUp) ==
  /\ up # "off" /\ stage = "boot"
  /\ \/ /\ Pending /\ uiUp
        /\ stage' = "tasks"
        /\ UNCHANGED <<flash, up, trial, tasks, install, said, untold>>
     \/ /\ Pending /\ ~uiUp
        /\ \/ ota' = [ota EXCEPT ![up] = "aborted"] /\ untold' = (untold \/ note = "found")
           \/ UNCHANGED <<ota, untold>>
        /\ Off
        /\ UNCHANGED <<image, named, note, said>>
     \/ /\ ~Pending
        /\ SettledNormally
        /\ trial' = NoTrial /\ stage' = IF uiUp THEN "tasks" ELSE "stuck"
        /\ UNCHANGED <<image, named, up, tasks, install>>
  /\ UNCHANGED quiet

-----------------------------------------------------------------------------
(* fw_trial.c and panel_trial.c: when the trial is kept. *)

\* A tick counts only once a frame has reached the display.  A plausible bug:
\* it counts at once.
MarkedAny(done, steps) == done \cup steps
Marked(done, steps) ==
  LET seen == done \cup (steps \ {"tick"})
  IN  IF "tick" \in steps /\ "frame" \in seen THEN seen \cup {"tick"} ELSE seen

\* The card, the settings, and then the tasks and the screen loop.
SetUp ==
  /\ stage = "tasks"
  /\ stage' = "loop"
  /\ trial' = [trial EXCEPT !.done = Marked(@, {"start"})]
  /\ UNCHANGED <<flash, up, tasks, quiet, install, said, untold>>

TaskRuns(t) ==
  /\ stage = "loop" /\ tasks' = tasks \cup {t} /\ tasks' # tasks
  /\ UNCHANGED <<flash, up, stage, trial, quiet, install, said, untold>>

\* FW_TRIAL_BOUND_MS since the start, in a count that wraps.
Time ==
  /\ stage = "loop" /\ ~trial.settled
  /\ trial' = [trial EXCEPT !.late = ~@]
  /\ UNCHANGED <<flash, up, stage, tasks, quiet, install, said, untold>>

\* Armed, an arm or the supply: the bench may change at any frame.
Bench ==
  /\ stage = "loop" /\ install = "none"
  /\ quiet' = ~quiet
  /\ UNCHANGED <<flash, start, install, said, untold>>

\* The bound is latched.  A plausible bug: the count is looked at afresh.
BoundAfresh == trial.late
Bound == trial.bound \/ trial.late

Keeps(done) == done = Steps \/ (Bound /\ "tick" \in done)

\* panel_trial_frame(): the tick of this pass is marked first, and counts for
\* the frame of a pass before it.
Frame(flushed) ==
  LET ticked == Marked(trial.done, {"tick"})
      done == Marked(ticked, tasks \cup (IF flushed THEN {"frame"} ELSE {}))
      kept == quiet /\ Keeps(done)
  IN
  /\ stage = "loop" /\ install = "none" /\ ~trial.settled
  /\ trial' = [trial EXCEPT !.done = done, !.bound = Bound, !.settled = kept]
  /\ IF kept THEN SettledKept ELSE UNCHANGED <<ota, note, said, untold>>
  /\ UNCHANGED <<image, named, up, stage, tasks, quiet, install>>

-----------------------------------------------------------------------------
(* fw_install.c, from the screen loop: nothing else of it runs meanwhile. *)

Installing(s) == stage = "loop" /\ install = s

\* The gate, and the control task stood still.  esp_ota_begin() refuses while
\* the running build is pending.
InstallBegins ==
  /\ Installing("none") /\ quiet /\ ~Pending
  /\ install' = "open"
  /\ UNCHANGED <<flash, start, quiet, said, untold>>

InstallWrites ==
  /\ Installing("open")
  /\ image' = [image EXCEPT ![Other(up)] = "part"]
  /\ install' = "writing"
  /\ UNCHANGED <<ota, named, note, start, quiet, said, untold>>

InstallFails ==
  /\ install \in {"open", "writing"} /\ up # "off"
  /\ install' = "none"
  /\ UNCHANGED <<flash, start, quiet, said, untold>>

\* The rest is written, read back and checked, and then named.  What was lost
\* before is written over.
InstallFinishes ==
  /\ Installing("writing")
  /\ image' = [image EXCEPT ![Other(up)] = "whole"]
  /\ ota' = [ota EXCEPT ![Other(up)] = "new"] /\ named' = Other(up)
  /\ untold' = FALSE
  /\ install' = "named"
  /\ UNCHANGED <<note, start, quiet, said>>

\* The note, which NVS may refuse, and the restart.
InstallNotes ==
  /\ Installing("named")
  /\ note' \in {note, "found"}
  /\ install' = "noted"
  /\ UNCHANGED <<image, ota, named, start, quiet, said, untold>>

InstallRestarts ==
  /\ Installing("noted")
  /\ Off
  /\ UNCHANGED <<flash, quiet, said, untold>>

Init ==
  /\ image = [s \in Slots |-> IF s = "A" THEN "whole" ELSE "part"]
  /\ ota = [s \in Slots |-> IF s = "A" THEN "valid" ELSE "none"]
  /\ named = "A" /\ note = "none"
  /\ up = "off" /\ stage = "boot" /\ trial = NoTrial /\ tasks = {}
  /\ quiet = TRUE /\ install = "none" /\ said = "nothing" /\ untold = FALSE

Next ==
  \/ Boots \/ Resets
  \/ \E uiUp \in BOOLEAN : TrialBegins(uiUp)
  \/ SetUp \/ Time \/ Bench
  \/ \E t \in {"control", "logger"} : TaskRuns(t)
  \/ \E flushed \in BOOLEAN : Frame(flushed)
  \/ InstallBegins \/ InstallWrites \/ InstallFails \/ InstallFinishes
  \/ InstallNotes \/ InstallRestarts

Spec == Init /\ [][Next]_vars

\* The screen loop runs, frames reach the display and time goes by; a bench that
\* is driven is at rest again in the end.
Fairness ==
  /\ WF_vars(SetUp) /\ WF_vars(Time)
  /\ WF_vars(Bench /\ ~quiet)
  /\ SF_vars(Frame(TRUE) /\ quiet) /\ SF_vars(Frame(TRUE) /\ trial.late)

FairSpec == Spec /\ Fairness

-----------------------------------------------------------------------------
(* Properties. *)

TypeOK ==
  /\ image \in [Slots -> {"whole", "part"}]
  /\ ota \in [Slots -> {"none", "new", "pending", "valid", "aborted"}]
  /\ named \in Slots /\ note \in {"none", "found"}
  /\ up \in Slots \cup {"off"} /\ stage \in {"boot", "tasks", "loop", "stuck"}
  /\ trial \in [done : SUBSET Steps, bound : BOOLEAN, settled : BOOLEAN,
                late : BOOLEAN]
  /\ tasks \subseteq Steps
  /\ quiet \in BOOLEAN /\ install \in {"none", "open", "writing", "named", "noted"}
  /\ said \in {"nothing", "normal", "updated", "rolledback", "unconfirmed"}
  /\ untold \in BOOLEAN

\* A build is kept on a bench at rest, in a start whose screens came up, and by
\* a tick that followed a frame on the display of an earlier pass.
KeptBuildsWork ==
  [][\A s \in Slots : ota[s] = "pending" /\ ota'[s] = "valid" =>
       s = up /\ stage = "loop" /\ quiet /\ "frame" \in trial.done]_vars

\* What a start reports of a lost build is true and is not missed: a start that
\* is no trial says so if a noted build was lost since the note was last erased,
\* and else not, whatever cut the start, the install or the note between
\* (fw_boot_settle(): "reports once").
ReportIsTrue ==
  [][said' # said /\ said' \in {"normal", "rolledback"} =>
       (said' = "rolledback" <=> untold)]_vars

\* A trial whose screen loop runs is settled, whatever became of the other
\* tasks, unless the panel resets first (fw_trial_poll(), FW_TRIAL_BOUND_MS).
TrialSettles == stage = "loop" /\ ~trial.settled ~> trial.settled \/ up = "off"
=============================================================================
