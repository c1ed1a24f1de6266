------------------------------ MODULE Resources ------------------------------
(***************************************************************************)
(* What the steps of several jobs share: the Gradle slots and the device   *)
(* pool of internal/resource, and their users in internal/engine, runPhase *)
(* (a slot for every build and test command) and the UI tests of TESTING   *)
(* and FLAKE_CHECK (a device first, then a slot for each command).         *)
(*                                                                         *)
(* The manager's mutex guards its maps only.  adb and the emulator are     *)
(* asked and told outside of it, so each of those calls is a step: the     *)
(* list of devices is old when a lease is taken from it, and an emulator   *)
(* is killed after its lease was given back.                               *)
(***************************************************************************)
EXTENDS Leases

vars == <<gradle, inUse, booted, emulator, step>>

Resting == [pc |-> "idle", serial |-> NoDevice, seen |-> {}, tried |-> FALSE, uses |-> 0]

\* Types; the jobs with a slot are those that run a command.
TypeOK ==
  /\ gradle = {j \in Jobs : step[j].pc = "run"}
  /\ inUse \subseteq Devices
  /\ booted \subseteq Devices
  /\ emulator \in {"off", "starting", "listed", "up"}
  /\ step \in [Jobs -> [pc : {"idle", "list", "lease", "look", "boot", "booting",
                              "wait", "run", "release", "kill", "forget"},
                        serial : Devices \cup {NoDevice}, seen : SUBSET Devices,
                        tried : BOOLEAN, uses : 0..MaxUses]]

Init ==
  /\ gradle = {}
  /\ inUse = {}
  /\ booted = {}
  /\ emulator = "off"
  /\ step = [j \in Jobs |-> Resting]

At(j, pc) == step[j].pc = pc

Goto(j, pc) == step' = [step EXCEPT ![j].pc = pc]

\* The step is done with its resources.
Rest(j) == step' = [step EXCEPT ![j] = [Resting EXCEPT !.uses = step[j].uses]]

\* `adb devices', in the "device" state.
AdbDevices == Phones \cup (IF emulator \in {"listed", "up"} THEN {Emulator} ELSE {})

\* What its callers make of it: an error is no devices.
AdbAnswers == {AdbDevices} \cup (IF AdbFails THEN {{}} ELSE {})

-----------------------------------------------------------------------------
(* The device pool. *)

\* The UI tests of TESTING and FLAKE_CHECK.
WantDevice(j) ==
  /\ At(j, "idle") /\ step[j].uses < MaxUses
  /\ step' = [step EXCEPT ![j].pc = "list", ![j].uses = @ + 1]
  /\ UNCHANGED <<gradle, inUse, booted, emulator>>

\* tryLease, before the lock is taken.
ListDevices(j) ==
  /\ At(j, "list")
  /\ \E found \in IF Discover THEN AdbAnswers ELSE {{}} :
       step' = [step EXCEPT ![j].pc = "lease", ![j].seen = found]
  /\ UNCHANGED <<gradle, inUse, booted, emulator>>

Pool(j) == Serials \cup step[j].seen

\* Mutant of Lease.
LeaseUnchecked(j) ==
  /\ At(j, "lease")
  /\ \E s \in Pool(j) :
       /\ inUse' = inUse \cup {s}
       /\ step' = [step EXCEPT ![j].pc = "wait", ![j].serial = s]
  /\ UNCHANGED <<gradle, booted, emulator>>

\* tryLease, under the lock: the first free serial, the configured ones first.
Lease(j) ==
  /\ At(j, "lease")
  /\ \E s \in Pool(j) \ inUse :
       /\ s \in Serials \/ Serials \subseteq inUse
       /\ inUse' = inUse \cup {s}
       /\ step' = [step EXCEPT ![j].pc = "wait", ![j].serial = s]
  /\ UNCHANGED <<gradle, booted, emulator>>

\* Nothing is free: boot the emulator once, else poll, ...
NoLease(j) ==
  /\ At(j, "lease")
  /\ Pool(j) \subseteq inUse
  /\ step' = IF BootEmulator /\ ~step[j].tried
               THEN [step EXCEPT ![j].pc = "look", ![j].tried = TRUE]
               ELSE [step EXCEPT ![j].pc = "list"]
  /\ UNCHANGED <<gradle, inUse, booted, emulator>>

\* ... until acquire_timeout: on_no_device decides.
GiveUp(j) ==
  /\ At(j, "lease")
  /\ Pool(j) \subseteq inUse
  /\ BootEmulator => step[j].tried
  /\ Rest(j)
  /\ UNCHANGED <<gradle, inUse, booted, emulator>>

\* bootEmulator: what adb lists before.
LookBefore(j) ==
  /\ At(j, "look")
  /\ \E before \in AdbAnswers :
       step' = [step EXCEPT ![j].pc = "boot", ![j].seen = before]
  /\ UNCHANGED <<gradle, inUse, booted, emulator>>

\* A second instance of a running AVD exits by itself.
StartEmulator(j) ==
  /\ At(j, "boot")
  /\ emulator' = IF emulator = "off" THEN "starting" ELSE emulator
  /\ Goto(j, "booting")
  /\ UNCHANGED <<gradle, inUse, booted>>

\* A serial that was not listed before, and its boot is completed.
BootDone(j) ==
  /\ At(j, "booting")
  /\ \E s \in AdbDevices \ step[j].seen :
       /\ s = Emulator => emulator = "up"
       /\ booted' = booted \cup {s}
  /\ Goto(j, "list")
  /\ UNCHANGED <<gradle, inUse, emulator>>

\* boot_timeout, or the context is done: an error of the step.
BootFails(j) ==
  /\ At(j, "booting")
  /\ Rest(j)
  /\ UNCHANGED <<gradle, inUse, booted, emulator>>

\* The emulator on its way up.
EmulatorStarts ==
  /\ \/ emulator = "starting" /\ emulator' = "listed"
     \/ emulator = "listed" /\ emulator' = "up"
  /\ UNCHANGED <<gradle, inUse, booted, step>>

\* Mutant of Release.
ReleaseUnlessBooted(j) ==
  /\ At(j, "release")
  /\ inUse' = inUse \ ({step[j].serial} \ booted)
  /\ IF step[j].serial \in booted /\ KillAfterJob THEN Goto(j, "kill") ELSE Rest(j)
  /\ UNCHANGED <<gradle, booted, emulator>>

\* release, under the lock.
Release(j) ==
  /\ At(j, "release")
  /\ inUse' = inUse \ {step[j].serial}
  /\ IF step[j].serial \in booted /\ KillAfterJob THEN Goto(j, "kill") ELSE Rest(j)
  /\ UNCHANGED <<gradle, booted, emulator>>

\* release, outside of it: `adb emu kill', which ends no phone ...
Kill(j) ==
  /\ At(j, "kill")
  /\ emulator' = IF step[j].serial = Emulator THEN "off" ELSE emulator
  /\ Goto(j, "forget")
  /\ UNCHANGED <<gradle, inUse, booted>>

\* ... and under it again.
Forget(j) ==
  /\ At(j, "forget")
  /\ booted' = booted \ {step[j].serial}
  /\ Rest(j)
  /\ UNCHANGED <<gradle, inUse, emulator>>

-----------------------------------------------------------------------------
(* The Gradle slots. *)

\* A build, a unit test or a lint run: no device.
WantPhase(j) ==
  /\ At(j, "idle") /\ step[j].uses < MaxUses
  /\ step' = [step EXCEPT ![j].pc = "wait", ![j].uses = @ + 1]
  /\ UNCHANGED <<gradle, inUse, booted, emulator>>

TakeSlot(j) ==
  /\ At(j, "wait")
  /\ Cardinality(gradle) < GradleSlots
  /\ gradle' = gradle \cup {j}
  /\ Goto(j, "run")
  /\ UNCHANGED <<inUse, booted, emulator>>

\* The step ends its use of the device, if it has one.
Leave(j) == IF step[j].serial = NoDevice THEN Rest(j) ELSE Goto(j, "release")

\* AcquireGradle, when the context is done.
Interrupted(j) ==
  /\ At(j, "wait")
  /\ Leave(j)
  /\ UNCHANGED <<gradle, inUse, booted, emulator>>

\* The command has ended, or timed out.
PhaseEnds(j) ==
  /\ At(j, "run")
  /\ gradle' = gradle \ {j}
  /\ Leave(j)
  /\ UNCHANGED <<inUse, booted, emulator>>

\* FLAKE_CHECK keeps its device for the next rerun.
RunsAgain(j) ==
  /\ At(j, "run")
  /\ step[j].uses < MaxUses
  /\ gradle' = gradle \ {j}
  /\ step' = [step EXCEPT ![j].pc = "wait", ![j].uses = @ + 1]
  /\ UNCHANGED <<inUse, booted, emulator>>

-----------------------------------------------------------------------------
Acquire(j) ==
  \/ ListDevices(j) \/ Lease(j) \/ NoLease(j) \/ GiveUp(j)
  \/ LookBefore(j) \/ StartEmulator(j) \/ BootDone(j) \/ BootFails(j)

Finish(j) == PhaseEnds(j) \/ RunsAgain(j) \/ Release(j) \/ Kill(j) \/ Forget(j)

Use(j) ==
  \/ WantDevice(j) \/ WantPhase(j) \/ Acquire(j)
  \/ TakeSlot(j) \/ Interrupted(j) \/ Finish(j)

\* Every job has had its phases.
Finished ==
  /\ \A j \in Jobs : At(j, "idle") /\ step[j].uses = MaxUses
  /\ UNCHANGED vars

Next == (\E j \in Jobs : Use(j)) \/ EmulatorStarts \/ Finished

(***************************************************************************)
(* A command ends (it has a timeout), and a channel serves the goroutines  *)
(* that wait to send in the order they came: none waits while slots come   *)
(* free for ever.                                                          *)
(***************************************************************************)
Spec ==
  /\ Init /\ [][Next]_vars
  /\ \A j \in Jobs : WF_vars(Finish(j)) /\ SF_vars(TakeSlot(j))

-----------------------------------------------------------------------------
(* Properties (LeasesAreExclusive is in Leases). *)

(***************************************************************************)
(* Jobs that hold a device and wait for a slot, and jobs that hold a slot, *)
(* never wait for one another: a phase gets its slot, a device comes back. *)
(***************************************************************************)
PhasesRun ==
  /\ \A j \in Jobs : At(j, "wait") ~> ~At(j, "wait")
  /\ \A s \in Devices : s \in inUse ~> s \notin inUse
=============================================================================
