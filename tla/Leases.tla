-------------------------------- MODULE Leases --------------------------------
(***************************************************************************)
(* The machine that jobs share: what `resources' of the configuration says *)
(* of it, what the resource manager and the jobs' steps know of it, and    *)
(* what a lease is worth.  Resources says how leases are taken and given   *)
(* back.                                                                   *)
(***************************************************************************)
EXTENDS Naturals, FiniteSets

CONSTANTS
  Jobs,          \* jobs whose steps run at the same time
  Phones,        \* devices adb always lists
  Emulator,      \* the serial the configured AVD comes up with
  NoDevice,      \* no device
  Serials,       \* resources.devices.serials
  Discover,      \* resources.devices.discover
  BootEmulator,  \* resources.devices.boot_emulator.enabled
  KillAfterJob,  \* resources.devices.boot_emulator.kill_after_job
  AdbFails,      \* may `adb devices' fail?
  GradleSlots,   \* resources.gradle_slots
  MaxUses        \* bound: phases of a job

Devices == Phones \cup {Emulator}

ASSUME DevicesAssumption == Emulator \notin Phones /\ NoDevice \notin Devices
ASSUME SerialsAssumption == Serials \subseteq Devices
ASSUME SwitchesAssumption ==
  /\ Discover \in BOOLEAN /\ BootEmulator \in BOOLEAN /\ KillAfterJob \in BOOLEAN
  /\ AdbFails \in BOOLEAN
ASSUME LimitsAssumption == GradleSlots \in Nat \ {0} /\ MaxUses \in Nat

VARIABLES
  gradle,    \* the jobs that hold a slot
  inUse,     \* leased serials
  booted,    \* serials of emulators this process booted
  emulator,  \* the AVD: off, starting, listed by adb, or boot completed
  step       \* what each job's step is doing

-----------------------------------------------------------------------------
HasDevice(j) == step[j].serial # NoDevice /\ step[j].pc \in {"wait", "run", "release"}

(***************************************************************************)
(* No two jobs are given one device, and the pool knows exactly the leases *)
(* that are held: none is leaked by an emulator, an interruption or a list *)
(* of devices that was old.                                                *)
(***************************************************************************)
LeasesAreExclusive ==
  /\ inUse = {step[j].serial : j \in {i \in Jobs : HasDevice(i)}}
  /\ \A i, j \in Jobs :
       (HasDevice(i) /\ HasDevice(j) /\ step[i].serial = step[j].serial) => i = j
=============================================================================
