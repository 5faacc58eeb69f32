------------------------------ MODULE Cabinet ------------------------------
(***************************************************************************)
(* The Cabinet library applet (amiibo settings) of                         *)
(* core/hle/service/am/applets/applet_cabinet.cpp.                         *)
(*                                                                         *)
(* The applet is started by the AM service, shows a frontend dialog that   *)
(* answers through a callback, drives an NFP device that the NFC polling   *)
(* thread moves between its states, and reports one result to the applet   *)
(* data broker.  The applet's methods are actions; the device, the tag and *)
(* the frontend are the environment.                                       *)
(***************************************************************************)
EXTENDS Naturals, Sequences, Functions

CONSTANTS
    KnownModes,     \* the four CabinetMode values Execute has a case for
    UnknownMode,    \* any other value of applet_input_common.applet_mode
    MaxExecute,     \* bound on the calls of Execute in one behaviour
    Failures        \* the device operations that may fail

ASSUME /\ UnknownMode \notin KnownModes
       /\ MaxExecute \in Nat \ {0}
       /\ Failures \subseteq {"StartDetection", "Mount", "Write"}

Modes == KnownModes \cup {UnknownMode}

-----------------------------------------------------------------------------
(* The NFP device, as the applet uses it *)

DeviceStates ==
    {"Initialized", "SearchingForTag", "TagFound", "TagRemoved",
     "TagMounted", "Unavailable"}

\* What a call of `op` may leave: the applet drops the Result of every
\* call, so a failure shows in the state of the device only.
Outcomes(op, done, failed) == IF op \in Failures THEN {done, failed} ELSE {done}

\* NfpDevice::Initialize followed by StartDetection, which fails when the
\* controller cannot poll.
StartDetection == Outcomes("StartDetection", "SearchingForTag", "Initialized")

\* NfpDevice::Finalize: unmounts, stops the detection, gives the device up.
\* Called through a null nfp_device it is the end of the process.
Finalize(device) ==
    IF device \in DeviceStates THEN "Unavailable" ELSE "null dereferenced"

\* NfpDevice::Mount: mounts a tag that has been found unless it cannot be
\* read, fails in every other state.
Mount(device) ==
    IF device = "TagFound" THEN Outcomes("Mount", "TagMounted", device)
    ELSE {device}

\* SetNicknameAndOwner, DeleteApplicationArea, RestoreAmiibo and
\* DeleteAllData change the tag when it is mounted, unless the write
\* fails, and fail otherwise.
Writes(device) ==
    IF device = "TagMounted" THEN Outcomes("Write", TRUE, FALSE) ELSE {FALSE}

-----------------------------------------------------------------------------
VARIABLES
    applet_mode,    \* applet_input_common.applet_mode, "unset" before Initialize
    is_complete,    \* Cabinet::is_complete
    nfp_device,     \* "null" or the state of *nfp_device
    normal_out,     \* the broker's queue of data pushed from the applet
    signals,        \* calls of broker.SignalStateChanged
    shown,          \* callbacks the frontend holds and has not called yet
    written,        \* a tag was changed through the device
    executes,       \* calls of Execute that went past the first test
    stack,          \* the line DisplayCompleted or Cancel is at, then the
                    \* line Cancel returns to; empty when neither runs
    apply_changes   \* the argument DisplayCompleted was called with

\* Everything but the device, which is all the polling thread writes.
applet ==
    <<applet_mode, is_complete, normal_out, signals, shown, written, executes,
      stack, apply_changes>>

vars == <<applet, nfp_device>>

\* What a statement of DisplayCompleted or Cancel can write.
session == <<nfp_device, is_complete, normal_out, signals, written>>

Init ==
    /\ applet_mode = "unset"
    /\ is_complete = FALSE
    /\ nfp_device = "null"
    /\ normal_out = <<>>
    /\ signals = 0
    /\ shown = 0
    /\ written = FALSE
    /\ executes = 0
    /\ stack = <<>>
    /\ apply_changes = FALSE

\* Initialize: the start parameters are popped from the broker and copied.
Initialize ==
    /\ applet_mode = "unset"
    /\ applet_mode' \in Modes
    /\ UNCHANGED <<session, stack, apply_changes, shown, executes>>

TransactionComplete == is_complete

-----------------------------------------------------------------------------
(* Execute, on the thread of the AM service.  It reads is_complete once   *)
(* and writes what no other thread writes, so it is one step.             *)

\* Variant: the device is not created.
NeverStarted == {nfp_device}

\* The device Execute works with: created and started on the first call.
Started == IF nfp_device = "null" THEN StartDetection ELSE {nfp_device}

\* DisplayCompleted runs on the thread of the frontend when the mode is
\* known, and inside Execute when it is not.
ServiceThreadFree == applet_mode \in KnownModes \/ stack = <<>>

\* Execute on an applet that is complete returns at once.
ExecuteComplete ==
    /\ applet_mode # "unset"
    /\ ServiceThreadFree
    /\ is_complete
    /\ UNCHANGED vars

\* Execute with a mode the switch knows: the frontend is shown and keeps
\* the callback.
ExecuteShow ==
    /\ applet_mode \in KnownModes
    /\ executes < MaxExecute
    /\ ~is_complete
    /\ nfp_device' \in Started
    /\ shown' = shown + 1
    /\ executes' = executes + 1
    /\ UNCHANGED <<applet_mode, is_complete, normal_out, signals, written,
                   stack, apply_changes>>

\* Execute with any other mode: DisplayCompleted(false, {}) is called.
ExecuteUnknown ==
    /\ applet_mode = UnknownMode
    /\ ServiceThreadFree
    /\ executes < MaxExecute
    /\ ~is_complete
    /\ nfp_device' \in Started
    /\ stack' = <<105>>
    /\ apply_changes' = FALSE
    /\ executes' = executes + 1
    /\ UNCHANGED <<applet_mode, is_complete, normal_out, signals, written, shown>>

\* The frontend calls the callback Execute gave it.  That it calls one
\* callback at a time (stack = <<>>) is assumed of the frontend, which runs
\* its dialogs on one thread; nothing in the applet enforces it.
Callback ==
    /\ shown > 0
    /\ stack = <<>>
    /\ shown' = shown - 1
    /\ stack' = <<105>>
    /\ apply_changes' \in BOOLEAN
    /\ UNCHANGED <<session, applet_mode, executes>>

-----------------------------------------------------------------------------
(* DisplayCompleted and Cancel, a step for every statement that reads or  *)
(* writes what another thread writes or reads                             *)

\* Variant: the state change is signalled before the result is pushed.
CancelSignalsFirst == <<158, 163, 166, 165>>

\* The statements of Cancel, by line and in their order: Finalize,
\* is_complete, PushNormalDataFromApplet, SignalStateChanged.
Cancel == <<158, 163, 165, 166>>

\* Variant: is_complete is not set.
CompletionNeverComplete == <<143, 150, 151>>

\* The same four statements at the end of DisplayCompleted.
Completion == <<143, 148, 150, 151>>

Line == IF stack = <<>> THEN 0 ELSE Head(stack)

\* Control passes to the lines `to`, the first of them next.
Goes(to) ==
    /\ stack' = to \o Tail(stack)
    /\ UNCHANGED <<applet_mode, shown, executes, apply_changes>>

\* Control passes to the statement after this one, and to the caller after
\* the last.
Onward ==
    \E body \in {Cancel, Completion} : \E k \in DOMAIN body :
        /\ Line = body[k]
        /\ Goes(IF k < Len(body) THEN <<body[k + 1]>> ELSE <<>>)

\* if (!apply_changes) Cancel(), and no return.
Declined ==
    /\ Line = 105
    /\ Goes(IF apply_changes THEN <<109>> ELSE <<Head(Cancel), 109>>)
    /\ UNCHANGED session

\* The first GetCurrentState of the test for a tag; && looks no further
\* when the tag is found.
TagAbsent ==
    /\ Line = 109
    /\ Goes(IF nfp_device # "TagFound" THEN <<110>> ELSE <<114>>)
    /\ UNCHANGED session

\* The second GetCurrentState of the test, then Cancel(), and no return.
TagNotMounted ==
    /\ Line = 110
    /\ Goes(IF nfp_device # "TagMounted" THEN <<Head(Cancel), 114>> ELSE <<114>>)
    /\ UNCHANGED session

\* The third GetCurrentState: Mount is called unless the tag is found.
MountNeeded ==
    /\ Line = 114
    /\ Goes(IF nfp_device # "TagFound" THEN <<115>> ELSE <<118>>)
    /\ UNCHANGED session

MountTag ==
    /\ Line = 115
    /\ Goes(<<118>>)
    /\ nfp_device' \in Mount(nfp_device)
    /\ UNCHANGED <<is_complete, normal_out, signals, written>>

\* The switch on the mode: one write operation for every known mode.
ApplyChanges ==
    /\ Line = 118
    /\ Goes(<<Head(Completion)>>)
    /\ written' \in {written \/ (applet_mode \in KnownModes /\ done) :
                        done \in Writes(nfp_device)}
    /\ UNCHANGED <<nfp_device, is_complete, normal_out, signals>>

\* Variant: the device is kept.
FinalizeSkipped ==
    /\ Line \in {143, 158}
    /\ Onward
    /\ UNCHANGED session

FinalizeDevice ==
    /\ Line \in {143, 158}
    /\ Onward
    /\ nfp_device' = Finalize(nfp_device)
    /\ UNCHANGED <<is_complete, normal_out, signals, written>>

SetComplete ==
    /\ Line \in {148, 163}
    /\ Onward
    /\ is_complete' = TRUE
    /\ UNCHANGED <<nfp_device, normal_out, signals, written>>

PushResult ==
    /\ Line \in {150, 165}
    /\ Onward
    /\ normal_out' = Append(normal_out, IF Line = 165 THEN "Cancel" ELSE "Success")
    /\ UNCHANGED <<nfp_device, is_complete, signals, written>>

SignalStateChanged ==
    /\ Line \in {151, 166}
    /\ Onward
    /\ signals' = signals + 1
    /\ UNCHANGED <<nfp_device, is_complete, normal_out, written>>

DisplayCompleted ==
    \/ Declined \/ TagAbsent \/ TagNotMounted \/ MountNeeded
    \/ MountTag \/ ApplyChanges
    \/ FinalizeDevice \/ SetComplete \/ PushResult \/ SignalStateChanged

-----------------------------------------------------------------------------
(* The NFC polling thread and the frontend *)

TagArrives ==
    /\ nfp_device = "SearchingForTag"
    /\ nfp_device' = "TagFound"
    /\ UNCHANGED applet

TagLeaves ==
    /\ nfp_device \in {"TagFound", "TagMounted"}
    /\ nfp_device' = "TagRemoved"
    /\ UNCHANGED applet

\* The frontend mounts the tag to show what is on it.
FrontendMounts ==
    /\ shown > 0
    /\ stack = <<>>
    /\ nfp_device = "TagFound"
    /\ nfp_device' \in Mount(nfp_device)
    /\ UNCHANGED applet

Next ==
    \/ Initialize
    \/ ExecuteComplete
    \/ ExecuteShow
    \/ ExecuteUnknown
    \/ Callback
    \/ DisplayCompleted
    \/ TagArrives
    \/ TagLeaves
    \/ FrontendMounts

\* A frontend that was shown calls its callback in the end, and a thread
\* that is in DisplayCompleted goes on.
Spec ==
    Init /\ [][Next]_vars /\ WF_vars(Callback) /\ WF_vars(DisplayCompleted)

-----------------------------------------------------------------------------
(* Properties *)

Lines == {105, 109, 110, 114, 115, 118} \cup Range(Cancel) \cup Range(Completion)

\* The variables keep their types; nfp_device in particular is null or a
\* device in one of its states, never a null pointer that was called
\* through, which Cancel and DisplayCompleted do without a test.
TypeOK ==
    /\ applet_mode \in Modes \cup {"unset"}
    /\ is_complete \in BOOLEAN
    /\ nfp_device \in DeviceStates \cup {"null"}
    /\ normal_out \in Seq({"Cancel", "Success"})
    /\ signals \in Nat
    /\ shown \in 0..MaxExecute
    /\ written \in BOOLEAN
    /\ executes \in 0..MaxExecute
    /\ stack \in UNION {[1..n -> Lines] : n \in 0..2}
    /\ apply_changes \in BOOLEAN

\* One result for one session: the caller pops one storage when the
\* applet reports TransactionComplete, so Cancel and DisplayCompleted
\* together push one ReturnValueForAmiiboSettings, however the dialog ends.
OneResult == Len(normal_out) <= 1

\* A session that ends cancelled leaves the tag as it was: when the first
\* result the caller reads is Cancel, no SetNicknameAndOwner,
\* DeleteApplicationArea, RestoreAmiibo or DeleteAllData has changed the
\* tag, before or after it, although DisplayCompleted runs on after Cancel.
CancelledLeavesTag ==
    (normal_out # <<>> /\ normal_out[1] = "Cancel") => ~written

\* Success means the change was made: when the first result the caller
\* reads is CabinetResult::Success and the mode asked for a change, the
\* tag was written, although three looks at the device and a Mount lie
\* between the callback and the write and the tag can leave at any time.
SuccessMeansApplied ==
    (applet_mode \in KnownModes /\ normal_out # <<>>
        /\ normal_out[1] = "Success") => written

\* The applet as the AM service sees it.
Abstract ==
    INSTANCE AppletSession WITH
        Results <- {"Cancel", "Success"},
        held <- nfp_device \in DeviceStates \ {"Unavailable"},
        complete <- TransactionComplete,
        results <- normal_out

\* The applet implements the session of AppletSession: every statement of
\* Execute, DisplayCompleted and Cancel, and every move of the tag between
\* them, in every interleaving of the three threads, is a step of that
\* session or changes nothing the service sees.  The device is released
\* before TransactionComplete is true, the result is pushed after it and
\* before the state change is signalled, so that a caller woken by the
\* signal finds the applet complete and its result in the queue; the tag
\* is written only through a device that is held.
Implements == Abstract!Spec

\* An applet that was executed completes: through the callback of the
\* frontend, or at once when the mode is unknown.
ExecutedCompletes == (executes > 0) ~> TransactionComplete
=============================================================================
