-------------------------------- MODULE ScopeApp --------------------------------
(***************************************************************************)
(* The application on the main thread (src/src/app/JScopeApp.cpp with      *)
(* JScopeSettings): which instrument is opened and by whose choice, the    *)
(* USB rule that is offered once, what adopting an open session restores,  *)
(* remembers and says, and the settings file, which is all that is left    *)
(* when the process ends.                                                  *)
(*                                                                         *)
(* The session is here what ScopeSession shows of it: openAsync() closes   *)
(* what is open and answers once, with a refusal when a connect is under   *)
(* way.  A device is what an enumeration says of it (driver, serial, port; *)
(* "" when it says nothing), the unit it really is, and what the           *)
(* application asks: whether its bus needs the rule (usb), whether it has  *)
(* a waveform to show (acquires), and whether its knobs are its own        *)
(* (owns: deviceOwnsConfiguration).  Whether a connect succeeds is the     *)
(* device's choice.                                                        *)
(***************************************************************************)
EXTENDS Naturals

CONSTANTS Devices,     \* every device there is, at every port it may be found
          Buses,       \* what an enumeration may find: sets of devices
          Options,     \* what --device may say; None when it is not given
          Captures,    \* the capture files, as devices of the replay driver
          Setups,      \* what a user may set an instrument to
          Default,     \* what a driver is constructed with
          None,
          MaxRuns,     \* bound on the starts of the program
          MaxPicks     \* bound on the devices picked

ASSUME AppAssumption == /\ Buses \subseteq SUBSET Devices
                        /\ Default \notin Setups /\ None \notin Setups \cup {Default}
                        /\ None \notin Devices \cup Captures
                        /\ MaxRuns \in Nat /\ MaxPicks \in Nat

Everything == Devices \cup Captures

\* A serial number is one unit's.
ASSUME SerialAssumption ==
  \A d, e \in Everything :
    d.driver = e.driver /\ d.serial # "" /\ d.serial = e.serial => d.unit = e.unit

DriverNames == {d.driver : d \in Everything}

VARIABLES
  up,          \* is the process there?
  preferred,   \* s_preferredDriver (--device), or None
  pending,     \* m_deviceSelectionPending
  installed,   \* is the USB rule installed?
  offered,     \* m_usbRuleOffered
  dialog,      \* what is done when the question on screen is settled, or None
  session,     \* "closed", "connecting" or "open"
  device,      \* the session's device
  asked,       \* who asked for the connect: "start" (_connectTo) or "user" (openDevice)
  current,     \* m_currentDevice; the panels are built for it
  notice,      \* the strip: what it says, and of which device
  cfg,         \* the driver's configuration
  stored,      \* the settings file: a setup for each driver,
  last,        \*   and the last device
  recording,   \* the device the open capture file describes, or None
  left,        \* history: the setup the user left each driver with
  tried,       \* history: the devices this run opened without being told which
  runs, picks

linkVars == <<session, device, asked, cfg, tried>>
ruleVars == <<installed, offered, dialog>>
fileVars == <<stored, last, left>>
appVars == <<up, preferred, pending, ruleVars, linkVars, current, notice, fileVars, recording, runs,
             picks>>

Notice(what, d) == [what |-> what, device |-> d]
Silent == Notice("", None)

AppTypeOK ==
  /\ up \in BOOLEAN /\ preferred \in Options
  /\ pending \in BOOLEAN /\ installed \in BOOLEAN /\ offered \in BOOLEAN
  /\ dialog = None \/ dialog \in [do : {"select", "start", "user"}, device : Everything \cup {None}]
  /\ session \in {"closed", "connecting", "open"}
  /\ device \in Everything \cup {None} /\ asked \in {"start", "user"}
  /\ current \in Everything \cup {None} /\ last \in Everything \cup {None}
  /\ notice.device \in Everything \cup {None}
  /\ cfg \in Setups \cup {Default} /\ stored \in [DriverNames -> Setups \cup {Default, None}]
  /\ recording \in Everything \cup {None} /\ tried \subseteq Devices

AppInit == /\ up = TRUE /\ pending = TRUE /\ preferred \in Options
           /\ installed = FALSE /\ offered = FALSE /\ dialog = None
           /\ session = "closed" /\ device = None /\ asked = "user"
           /\ current = None /\ notice = Silent /\ cfg = Default
           /\ stored = [r \in DriverNames |-> None] /\ last = None
           /\ recording = None /\ left = [r \in DriverNames |-> None] /\ tried = {}
           /\ runs = 1 /\ picks = 0

-----------------------------------------------------------------------------
HasDriver == session # "closed"

\* _offerUsbRule(): would it ask?
MustAsk(d) == ~offered /\ d.usb /\ ~installed

Ask(then) == offered' = TRUE /\ dialog' = then

\* done(false): the question, or the notice.
Failed(d, how) ==
  IF MustAsk(d) THEN Ask([do |-> how, device |-> d]) /\ UNCHANGED notice
                ELSE notice' = Notice("cannot open", d) /\ UNCHANGED offered

\* m_session.openAsync(d), when no other connect is under way: what is open is
\* closed, and a driver constructed.
Connect(d, how) ==
  /\ session' = "connecting" /\ device' = d /\ asked' = how /\ cfg' = Default
  /\ tried' = IF how = "start" THEN tried \cup {d} ELSE tried
  /\ UNCHANGED offered

\* _connectTo(), and openDevice(), which clears the notice of the last attempt
\* first.  A second request during a connect fails at once.
ConnectTo(d) ==
  IF session = "connecting" THEN Failed(d, "start") /\ UNCHANGED linkVars
                            ELSE Connect(d, "start") /\ UNCHANGED notice

OpenDevice(d) ==
  IF session # "connecting" THEN Connect(d, "user") /\ notice' = Silent
  ELSE /\ UNCHANGED linkVars
       /\ IF MustAsk(d) THEN Ask([do |-> "user", device |-> d]) /\ notice' = Silent
                        ELSE notice' = Notice("cannot open", d) /\ UNCHANGED offered

\* Mutants of IsLast: only the driver is compared; the port before the serial.
IsLastDriver(d) == last # None /\ d.driver = last.driver
IsLastPort(d) == /\ last # None /\ d.driver = last.driver
                 /\ IF last.port # "" /\ d.port # "" THEN d.port = last.port
                    ELSE d.serial = last.serial

\* The physical unit used last time, as far as it can be told.
IsLast(d) ==
  /\ last # None /\ d.driver = last.driver
  /\ IF last.serial # "" /\ d.serial # "" THEN d.serial = last.serial
     ELSE last.port # "" /\ d.port # "" => d.port = last.port

\* What _selectDevice() would open, of the devices it found; the mutant goes on
\* down the bus when the device it looks for is not there.
Named(d) == IF preferred # None THEN d.driver = preferred ELSE IsLast(d)
WantedOrAny(found) == IF \E d \in found : Named(d) THEN {d \in found : Named(d)} ELSE found
Wanted(found) == {d \in found : Named(d)}

\* Mutant of NothingToOpen: not a word.
NothingSaid == Silent
NothingToOpen == IF preferred # None THEN Notice("no such driver", None)
                 ELSE IF last = None THEN Notice("choose", None)
                 ELSE Notice("not found", last)

\* _selectDevice().  The first device that matches is opened, in the order of the
\* enumeration, which is anyone's.
Select ==
  \E found \in Buses :
    IF \E d \in found : MustAsk(d)
    THEN Ask([do |-> "select", device |-> None]) /\ UNCHANGED <<linkVars, notice>>
    ELSE IF Wanted(found) # {} THEN \E d \in Wanted(found) : ConnectTo(d)
    ELSE notice' = NothingToOpen /\ UNCHANGED <<linkVars, offered>>

-----------------------------------------------------------------------------
\* The question stays as it is unless it is put now.
KeepQuestion == IF offered' = offered THEN dialog' = dialog ELSE TRUE

\* The window has drawn its first frame.  The mutant selects on every frame.
FirstFrameAgain ==
  /\ up /\ pending /\ pending' = pending
  /\ Select /\ KeepQuestion
  /\ UNCHANGED <<up, preferred, installed, current, fileVars, recording, runs, picks>>

FirstFrame ==
  /\ up /\ pending
  /\ pending' = FALSE
  /\ Select /\ KeepQuestion
  /\ UNCHANGED <<up, preferred, installed, current, fileVars, recording, runs, picks>>

\* The Device menu, which lists what was there when it was built, or the bus's
\* `open`; openCapture(), which closes a recording first.
Pick ==
  /\ up /\ picks < MaxPicks /\ picks' = picks + 1
  /\ \/ \E d \in Devices : OpenDevice(d) /\ UNCHANGED recording
     \/ \E d \in Captures : OpenDevice(d) /\ recording' = None
  /\ KeepQuestion
  /\ UNCHANGED <<up, preferred, pending, installed, current, fileVars, runs>>

\* The installer the question may have started writes the rule.
RuleInstalled ==
  /\ up /\ dialog # None /\ ~installed /\ installed' = TRUE
  /\ UNCHANGED <<up, preferred, pending, offered, dialog, linkVars, current, notice, fileVars,
                 recording, runs, picks>>

\* The question is settled (No; or Yes, and the installation has ended either
\* way), and what it held up goes on.  It is not put twice.
Answered ==
  /\ up /\ dialog # None
  /\ dialog' = None
  /\ CASE dialog.do = "select" -> Select
       [] dialog.do = "start"  -> ConnectTo(dialog.device)
       [] dialog.do = "user"   -> OpenDevice(dialog.device)
  /\ UNCHANGED <<up, preferred, pending, installed, current, fileVars, recording, runs, picks>>

-----------------------------------------------------------------------------
\* The connect has failed.
ConnectFails ==
  /\ up /\ session = "connecting"
  /\ session' = "closed"
  /\ Failed(device, asked) /\ KeepQuestion
  /\ UNCHANGED <<up, preferred, pending, installed, device, asked, cfg, tried, current, fileVars,
                 recording, runs, picks>>

\* restore(): the setup stored for the driver, unless the file has none.  Mutant:
\* the panels are synced first, and with them the defaults.
RestoredLate(d) == Default
Restored(d) == IF stored[d.driver] = None THEN Default ELSE stored[d.driver]

\* The setup an instrument comes up with: one whose knobs are its own keeps what it
\* reports, whatever that is.
ComesUpWith(d) == IF d.owns THEN Setups \cup {Default} ELSE {Restored(d)}

\* _adoptOpenSession(): the panels and the file follow the device, its setup is
\* put back unless it has one of its own, and it is started if it can acquire.
\* The mutant remembers only what the user picked.
AdoptPicked ==
  /\ up /\ session = "connecting"
  /\ session' = "open" /\ current' = device
  /\ last' = (IF asked = "user" THEN device ELSE last)
  /\ cfg' \in ComesUpWith(device)
  /\ left' = [left EXCEPT ![device.driver] = IF device.owns THEN cfg' ELSE
                                             IF @ = None THEN Default ELSE @]
  /\ notice' = IF device.acquires THEN Silent ELSE Notice("no waveform", device)
  /\ UNCHANGED <<up, preferred, pending, ruleVars, device, asked, tried, stored, recording, runs,
                 picks>>

Adopt ==
  /\ up /\ session = "connecting"
  /\ session' = "open" /\ current' = device /\ last' = device
  /\ cfg' \in ComesUpWith(device)
  /\ left' = [left EXCEPT ![device.driver] = IF device.owns THEN cfg' ELSE
                                             IF @ = None THEN Default ELSE @]
  /\ notice' = IF device.acquires THEN Silent ELSE Notice("no waveform", device)
  /\ UNCHANGED <<up, preferred, pending, ruleVars, device, asked, tried, stored, recording, runs,
                 picks>>

\* A setting, by a panel, a drag, or a bus command.
Edit ==
  /\ up /\ session = "open"
  /\ \E c \in Setups :
       /\ cfg' = c /\ left' = [left EXCEPT ![device.driver] = c]
  /\ UNCHANGED <<up, preferred, pending, ruleVars, session, device, asked, tried, current, notice,
                 stored, last, recording, runs, picks>>

\* startRecording(): the file describes the driver of the moment.
StartRecording ==
  /\ up /\ HasDriver
  /\ recording' = device
  /\ UNCHANGED <<up, preferred, pending, ruleVars, linkVars, current, notice, fileVars, runs,
                 picks>>

StopRecording ==
  /\ up /\ recording # None
  /\ recording' = None
  /\ UNCHANGED <<up, preferred, pending, ruleVars, linkVars, current, notice, fileVars, runs,
                 picks>>

-----------------------------------------------------------------------------
\* The process is gone; only the file and the rule are left.
Gone == /\ up' = FALSE /\ pending' = FALSE
        /\ offered' = FALSE /\ dialog' = None
        /\ session' = "closed" /\ device' = None /\ asked' = "user" /\ cfg' = Default
        /\ current' = None /\ notice' = Silent /\ recording' = None /\ tried' = {}
        /\ UNCHANGED <<preferred, installed, last, runs, picks>>

\* The window is closed, or a termination signal closes it: the settings are
\* written, in the section of its driver, while there is one to read them from.
Quit ==
  /\ up /\ Gone
  /\ stored' = IF HasDriver THEN [stored EXCEPT ![device.driver] = cfg] ELSE stored
  /\ UNCHANGED left

\* The process is killed: what is not in the file is lost.
Killed == up /\ Gone /\ left' = stored /\ UNCHANGED stored

Restart ==
  /\ ~up /\ runs < MaxRuns
  /\ up' = TRUE /\ pending' = TRUE /\ preferred' \in Options /\ runs' = runs + 1
  /\ UNCHANGED <<ruleVars, linkVars, current, notice, fileVars, recording, picks>>

AppNext == \/ FirstFrame \/ Pick \/ RuleInstalled \/ Answered \/ ConnectFails \/ Adopt \/ Edit
           \/ StartRecording \/ StopRecording \/ Quit \/ Killed \/ Restart

\* The window goes on drawing, and a connect that was begun ends: every transfer
\* it makes has a timeout.
AppSpec == /\ AppInit /\ [][AppNext]_appVars
           /\ WF_appVars(FirstFrame) /\ WF_appVars(ConnectFails \/ Adopt)

-----------------------------------------------------------------------------
\* _selectDevice(): one instrument is opened at startup, whatever fails, however
\* the question about the USB rule is answered, and whatever is picked meanwhile.
OneIsTried == \A d, e \in tried : d = e

\* Without --device it is the physical unit that opened last, wherever it is
\* plugged in now, as long as both say which unit they are; with --device it is one
\* of that driver.
OnlyRemembered ==
  [][\A d \in tried' \ tried :
       IF preferred # None THEN d.driver = preferred
       ELSE /\ last # None /\ d.driver = last.driver
            /\ d.serial # "" /\ last.serial # "" => d.unit = last.unit]_appVars

\* The instrument the settings name as the last one, the one the panels are built
\* for and the one that is open are the same, through failed connects and refused
\* requests.
RememberedIsOpen == session = "open" => last = device /\ current = device

\* JScopeSettings: a setup stored for a driver is replaced only by what the user left
\* that driver with, never by the defaults and never by another instrument's setup,
\* however often instruments are changed, the program is closed or killed and started
\* again, and the driver opened and closed without an edit.  Excepted are an
\* instrument whose setup is its own, and closing the window during a connect
\* (ClosingKeepsSetups).
SetupsKept ==
  [][\A r \in DriverNames :
       stored[r] \in Setups /\ stored'[r] # stored[r]
         => stored'[r] = left[r] \/ session = "connecting" \/ device.owns]_appVars

\* The selection ends in an instrument, a question, or a word on the strip.
SelectionEnds ==
  up /\ pending ~> ~up \/ session = "open" \/ dialog # None \/ notice # Silent

\* CONTRADICTED.  JScopeApp.cpp:274-278: closing the window writes down what the
\* user left a driver with, and never loses it.
ClosingKeepsSetups ==
  [][\A r \in DriverNames : stored'[r] # stored[r] => stored'[r] = left[r]]_appVars

\* CONTRADICTED.  JScopeApp.cpp:677-679: no "Cannot connect" stands above a
\* connection that is in progress.
NoStaleNotice == session = "connecting" => notice.what # "cannot open"

\* NOT WHAT THE CODE DOES: the frames of a recording are of the instrument its
\* header describes.
OneInstrumentPerFile == recording # None /\ session = "open" => recording = device
==============================================================================
