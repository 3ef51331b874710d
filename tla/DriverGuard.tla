----------------------------- MODULE DriverGuard -----------------------------
(***************************************************************************)
(* Loading and unloading the kernel driver (src/kernel_target.rs): the     *)
(* launchers, target-driver and virtual-display, each with a DriverGuard,  *)
(* and a --unload command, on a machine they share.  Every command that    *)
(* changes the machine is a step of its own, and so are the looks at it,   *)
(* but for two pairs: the device and the module in CheckModule, and        *)
(* dtoverlay -l with the dtoverlay -r that follows it in CleanOverlays.    *)
(* The processes run side by side, a command may fail, and a launcher may  *)
(* be killed.                                                              *)
(*                                                                         *)
(* dtoverlay and rmmod take a name and know no owner.  Who inserted the    *)
(* module and who applied an overlay is history.                           *)
(***************************************************************************)
EXTENDS Integers, Sequences, FiniteSets

CONSTANTS
    Launchers,     \* processes that load the driver
    NoOne,
    MaxFaults,     \* bound: commands that fail although they could succeed
    MaxKills,      \* bound: launchers killed by SIGKILL
    MaxUnloads     \* bound: runs of --unload

ASSUME LaunchersAssumption == IsFiniteSet(Launchers) /\ NoOne \notin Launchers
ASSUME BoundsAssumption    == MaxFaults \in Nat /\ MaxKills \in Nat /\ MaxUnloads \in Nat

VARIABLES
  \* the machine
    hardware,        \* Hardware::detect(): which of OVERLAY_NAMES is its overlay
    overlays,        \* its active overlays of that name, by who applied them
    module,          \* who inserted the module that is loaded
    node,            \* the device node exists
    user,            \* who has it open: a launcher, "other" or NoOne
  \* the launchers
    pc,
    overlayLoaded, moduleLoaded,   \* DriverGuard's fields
  \* --unload
    cleaner,         \* where it is
    moduleSeen,      \* its module_loaded
  \* bounds and history
    faults, kills, unloads,
    removalsFailed,  \* removal commands of a launcher that failed
    served,          \* launchers that got as far as serve()
    undisturbed,     \* nobody else has moved since --unload began
    overlaysAtStart  \* active overlays when it began

machineVars == <<overlays, module, node>>
guardVars   == <<overlayLoaded, moduleLoaded>>
cleanVars   == <<cleaner, moduleSeen, unloads, overlaysAtStart>>
launchVars  == <<pc, guardVars, removalsFailed, served>>
vars        == <<hardware, machineVars, user, launchVars, cleanVars, faults, kills, undisturbed>>

OverlayNames == {"bsc-target-pi3", "bsc-target-pi4"}
Users        == Launchers \union {"other", NoOne}
Points       == {"idle", "checked", "unused", "applied", "inserted", "ready", "serving",
                 "unload", "unloadOverlay", "drop", "dropOverlay", "ended", "killed"}
CleanPoints  == {"idle", "seen", "module", "overlays", "refused", "failed", "cleaned"}

TypeOK ==
    /\ hardware \in OverlayNames
    /\ overlays \in Seq(Launchers) /\ module \in Launchers \union {NoOne}
    /\ node \in BOOLEAN /\ user \in Users
    /\ pc \in [Launchers -> Points]
    /\ overlayLoaded \in [Launchers -> BOOLEAN] /\ moduleLoaded \in [Launchers -> BOOLEAN]
    /\ cleaner \in CleanPoints /\ moduleSeen \in BOOLEAN
    /\ faults \in Nat /\ kills \in Nat /\ unloads \in Nat
    /\ removalsFailed \in [Launchers -> Nat] /\ served \in SUBSET Launchers
    /\ undisturbed \in BOOLEAN /\ overlaysAtStart \in Nat

Init ==
    /\ hardware \in OverlayNames
    /\ overlays = <<>> /\ module = NoOne /\ node = FALSE /\ user = NoOne
    /\ pc = [l \in Launchers |-> "idle"]
    /\ overlayLoaded = [l \in Launchers |-> FALSE] /\ moduleLoaded = [l \in Launchers |-> FALSE]
    /\ cleaner = "idle" /\ moduleSeen = FALSE
    /\ faults = 0 /\ kills = 0 /\ unloads = 0
    /\ removalsFailed = [l \in Launchers |-> 0] /\ served = {}
    /\ undisturbed = FALSE /\ overlaysAtStart = 0

-----------------------------------------------------------------------------
(* The commands, and what the kernel does on them. *)

Loaded == module # NoOne

\* A command that could succeed and does not.
Fault == faults < MaxFaults /\ faults' = faults + 1 /\ UNCHANGED machineVars

Succeeds == UNCHANGED faults

\* rmmod: refused while the module is absent or in use.
RmmodPossible == Loaded /\ user = NoOne

Rmmod == /\ RmmodPossible /\ module' = NoOne /\ node' = FALSE /\ UNCHANGED overlays
         /\ Succeeds

RmmodFails == \/ ~RmmodPossible /\ UNCHANGED <<machineVars, faults>>
              \/ RmmodPossible /\ Fault

\* dtoverlay -r NAME removes the overlay of that name that was applied last.
OverlayRemoved ==
    /\ overlays # <<>> /\ overlays' = SubSeq(overlays, 1, Len(overlays) - 1)
    /\ node' = FALSE /\ UNCHANGED module /\ Succeeds

OverlayRemovalFails == \/ overlays = <<>> /\ UNCHANGED <<machineVars, faults>>
                       \/ overlays # <<>> /\ Fault

\* The driver has bound to the overlay's device.
NodeAppears ==
    /\ Loaded /\ overlays # <<>> /\ ~node /\ node' = TRUE
    /\ UNCHANGED <<hardware, overlays, module, user, launchVars, cleanVars, faults, kills,
                   undisturbed>>

\* A process outside the repository opens and closes the device.
OtherUser ==
    /\ \/ node /\ user = NoOne /\ user' = "other"
       \/ user = "other" /\ user' = NoOne
    /\ undisturbed' = FALSE
    /\ UNCHANGED <<hardware, machineVars, launchVars, cleanVars, faults, kills>>

-----------------------------------------------------------------------------
(* A launcher: load_configured(). *)

Goto(l, point) == pc' = [pc EXCEPT ![l] = point]

Launched == undisturbed' = FALSE /\ UNCHANGED <<hardware, cleanVars, kills>>

\* ensure_unloaded(), first the device and the module, which one condition looks at.
CheckModule(l) ==
    /\ pc[l] = "idle"
    /\ Goto(l, IF node \/ Loaded THEN "ended" ELSE "checked")
    /\ UNCHANGED <<machineVars, user, guardVars, removalsFailed, served, faults>> /\ Launched

\* ensure_unloaded(), then the overlays; and ensure_artifacts_current().
CheckOverlay(l) ==
    /\ pc[l] = "checked"
    /\ Goto(l, IF overlays # <<>> THEN "ended" ELSE "unused")
    /\ UNCHANGED <<machineVars, user, guardVars, removalsFailed, served, faults>> /\ Launched

\* A check that fails before anything is loaded.
CheckFails(l) ==
    /\ pc[l] \in {"idle", "checked", "unused"} /\ Goto(l, "ended")
    /\ UNCHANGED <<machineVars, user, guardVars, removalsFailed, served, faults>> /\ Launched

\* Faulty form of ApplyOverlay: the guard takes the overlay before the command has run.
ApplyOverlayEarly(l) ==
    /\ pc[l] = "unused"
    /\ \/ /\ overlays' = Append(overlays, l) /\ Succeeds
          /\ Goto(l, "applied") /\ UNCHANGED <<module, node>>
       \/ Fault /\ Goto(l, "drop")
    /\ overlayLoaded' = [overlayLoaded EXCEPT ![l] = TRUE]
    /\ UNCHANGED <<user, moduleLoaded, removalsFailed, served>> /\ Launched

ApplyOverlay(l) ==
    /\ pc[l] = "unused"
    /\ \/ /\ overlays' = Append(overlays, l) /\ Succeeds
          /\ overlayLoaded' = [overlayLoaded EXCEPT ![l] = TRUE]
          /\ Goto(l, "applied") /\ UNCHANGED <<module, node>>
       \/ Fault /\ Goto(l, "drop") /\ UNCHANGED overlayLoaded
    /\ UNCHANGED <<user, moduleLoaded, removalsFailed, served>> /\ Launched

\* Faulty form of InsertModule: a module that is there already counts as loaded.
InsertModuleTolerant(l) ==
    /\ pc[l] = "applied"
    /\ \/ /\ module' = (IF Loaded THEN module ELSE l) /\ Succeeds
          /\ moduleLoaded' = [moduleLoaded EXCEPT ![l] = TRUE]
          /\ Goto(l, "inserted") /\ UNCHANGED <<overlays, node>>
       \/ Fault /\ Goto(l, "drop") /\ UNCHANGED moduleLoaded
    /\ UNCHANGED <<user, overlayLoaded, removalsFailed, served>> /\ Launched

\* insmod: refused when a module of that name is loaded.
InsertModule(l) ==
    /\ pc[l] = "applied"
    /\ \/ /\ ~Loaded /\ module' = l /\ Succeeds
          /\ moduleLoaded' = [moduleLoaded EXCEPT ![l] = TRUE]
          /\ Goto(l, "inserted") /\ UNCHANGED <<overlays, node>>
       \/ /\ Loaded /\ UNCHANGED <<machineVars, moduleLoaded, faults>> /\ Goto(l, "drop")
       \/ ~Loaded /\ Fault /\ Goto(l, "drop") /\ UNCHANGED moduleLoaded
    /\ UNCHANGED <<user, overlayLoaded, removalsFailed, served>> /\ Launched

\* The node is awaited for a second; without it the guard is dropped.
AwaitNode(l) ==
    /\ pc[l] = "inserted"
    /\ Goto(l, IF node THEN "ready" ELSE "drop")
    /\ UNCHANGED <<machineVars, user, guardVars, removalsFailed, served, faults>> /\ Launched

-----------------------------------------------------------------------------
(* A launcher: main() from serve() on, unload() and drop(). *)

\* serve() opens the device, which allows one user.
OpenDevice(l) ==
    /\ pc[l] = "ready"
    /\ IF node /\ user = NoOne THEN user' = l /\ Goto(l, "serving")
                               ELSE UNCHANGED user /\ Goto(l, "unload")
    /\ served' = served \union {l}
    /\ UNCHANGED <<machineVars, guardVars, removalsFailed, faults>> /\ Launched

\* serve() returns, and has closed the device.
ServeReturns(l) ==
    /\ pc[l] = "serving" /\ user' = NoOne /\ Goto(l, "unload")
    /\ UNCHANGED <<machineVars, guardVars, removalsFailed, served, faults>> /\ Launched

RemovalFailed(l) == removalsFailed' = [removalsFailed EXCEPT ![l] = @ + 1]

\* unload(), first the module; an error returns before the overlay is touched.
UnloadModule(l, here, next, failed) ==
    /\ pc[l] = here
    /\ \/ /\ moduleLoaded[l] /\ Rmmod /\ Goto(l, next)
          /\ moduleLoaded' = [moduleLoaded EXCEPT ![l] = FALSE] /\ UNCHANGED removalsFailed
       \/ /\ moduleLoaded[l] /\ RmmodFails /\ Goto(l, failed)
          /\ RemovalFailed(l) /\ UNCHANGED moduleLoaded
       \/ /\ ~moduleLoaded[l] /\ Goto(l, next)
          /\ UNCHANGED <<machineVars, faults, moduleLoaded, removalsFailed>>
    /\ UNCHANGED <<user, overlayLoaded, served>> /\ Launched

\* unload(), then the overlay.
UnloadOverlay(l, here, next, failed) ==
    /\ pc[l] = here
    /\ \/ /\ overlayLoaded[l] /\ OverlayRemoved /\ Goto(l, next)
          /\ overlayLoaded' = [overlayLoaded EXCEPT ![l] = FALSE] /\ UNCHANGED removalsFailed
       \/ /\ overlayLoaded[l] /\ OverlayRemovalFails /\ Goto(l, failed)
          /\ RemovalFailed(l) /\ UNCHANGED overlayLoaded
       \/ /\ ~overlayLoaded[l] /\ Goto(l, next)
          /\ UNCHANGED <<machineVars, faults, overlayLoaded, removalsFailed>>
    /\ UNCHANGED <<user, moduleLoaded, served>> /\ Launched

\* Faulty form of Unload: an error of the explicit unload() ends the program there.
UnloadOnce(l) ==
    \/ UnloadModule(l, "unload", "unloadOverlay", "ended")
    \/ UnloadOverlay(l, "unloadOverlay", "ended", "ended")
    \/ UnloadModule(l, "drop", "dropOverlay", "ended")
    \/ UnloadOverlay(l, "dropOverlay", "ended", "ended")

\* main() unloads and then drops the guard, which unloads what is left; so does a failed load.
Unload(l) ==
    \/ UnloadModule(l, "unload", "unloadOverlay", "drop")
    \/ UnloadOverlay(l, "unloadOverlay", "ended", "drop")
    \/ UnloadModule(l, "drop", "dropOverlay", "ended")
    \/ UnloadOverlay(l, "dropOverlay", "ended", "ended")

\* SIGKILL: the descriptors are closed, nothing else is done.  (A command that is still
\* running ends by itself: that is a kill right after it.  The guard of a killed launcher is
\* history.)
Kill(l) ==
    /\ kills < MaxKills /\ kills' = kills + 1
    /\ pc[l] \notin {"idle", "ended", "killed"} /\ Goto(l, "killed")
    /\ user' = (IF user = l THEN NoOne ELSE user)
    /\ undisturbed' = FALSE
    /\ UNCHANGED <<hardware, machineVars, guardVars, removalsFailed, served, cleanVars, faults>>

-----------------------------------------------------------------------------
(* --unload: unload_existing(). *)

Cleaning == UNCHANGED <<hardware, user, launchVars, kills, undisturbed, unloads, overlaysAtStart>>

CleanBegin ==
    /\ cleaner \in {"idle", "refused", "failed", "cleaned"} /\ unloads < MaxUnloads
    /\ unloads' = unloads + 1 /\ undisturbed' = TRUE /\ overlaysAtStart' = Len(overlays)
    /\ moduleSeen' = Loaded /\ cleaner' = "seen"
    /\ UNCHANGED <<hardware, machineVars, user, launchVars, faults, kills>>

\* A device of another driver is left alone.
CleanCheckDevice ==
    /\ cleaner = "seen"
    /\ cleaner' = (IF node /\ ~moduleSeen THEN "refused" ELSE "module")
    /\ UNCHANGED <<machineVars, moduleSeen, faults>> /\ Cleaning

\* Faulty form of CleanModule: a failed rmmod does not stop the clean-up.
CleanModuleRegardless ==
    /\ cleaner = "module" /\ cleaner' = "overlays"
    /\ \/ moduleSeen /\ Rmmod
       \/ moduleSeen /\ RmmodFails
       \/ ~moduleSeen /\ UNCHANGED <<machineVars, faults>>
    /\ UNCHANGED moduleSeen /\ Cleaning

CleanModule ==
    /\ cleaner = "module"
    /\ \/ moduleSeen /\ Rmmod /\ cleaner' = "overlays"
       \/ moduleSeen /\ RmmodFails /\ cleaner' = "failed"
       \/ ~moduleSeen /\ UNCHANGED <<machineVars, faults>> /\ cleaner' = "overlays"
    /\ UNCHANGED moduleSeen /\ Cleaning

\* Overlays of the first name are removed as long as there are any, of the second name once.
\* The list and the removal it leads to are one step.
AfterRemoval == IF hardware = "bsc-target-pi3" THEN "overlays" ELSE "cleaned"

CleanOverlays ==
    /\ cleaner = "overlays"
    /\ \/ overlays # <<>> /\ OverlayRemoved /\ cleaner' = AfterRemoval
       \/ overlays # <<>> /\ OverlayRemovalFails /\ cleaner' = "failed"
       \/ overlays = <<>> /\ UNCHANGED <<machineVars, faults>> /\ cleaner' = "cleaned"
    /\ UNCHANGED moduleSeen /\ Cleaning

Clean == CleanBegin \/ CleanCheckDevice \/ CleanModule \/ CleanOverlays

Launch(l) == \/ CheckModule(l) \/ CheckOverlay(l) \/ CheckFails(l)
             \/ ApplyOverlay(l) \/ InsertModule(l) \/ AwaitNode(l)
             \/ OpenDevice(l) \/ ServeReturns(l) \/ Unload(l)

Next == \/ \E l \in Launchers : Launch(l) \/ Kill(l)
        \/ Clean \/ NodeAppears \/ OtherUser

Spec == Init /\ [][Next]_vars

-----------------------------------------------------------------------------
(* Properties. *)

Holders == {l \in Launchers : overlayLoaded[l]}

\* As long as nobody runs --unload, the active overlays are one for each guard that says it
\* applied one: a launcher that loses the race for the module, or whose command failed, takes
\* back exactly its share, and a serving launcher keeps an overlay.
OverlaysAccounted ==
    unloads = 0 => /\ Len(overlays) = Cardinality(Holders)
                   /\ \A l \in Launchers : pc[l] = "serving" => overlays # <<>>

\* As long as nobody runs --unload, the launchers never remove a module that another one
\* inserted, not even when both found the machine clean (ensure_unloaded is no lock).
OnlyOwnModule ==
    [][ \A l \in Launchers :
          (unloads = 0 /\ Loaded /\ module' = NoOne /\ pc'[l] # pc[l]) => module = l ]_vars

\* A launcher that ends by itself has nothing loaded, whatever failed on the way, unless a
\* removal command failed too; after serve() a single failed one is made up for by the drop
\* of the guard (kernel/README.md:202).
EndedClean ==
    \A l \in Launchers :
        (pc[l] = "ended" /\ removalsFailed[l] <= (IF l \in served THEN 1 ELSE 0)) =>
            ~moduleLoaded[l] /\ ~overlayLoaded[l]

\* A --unload that succeeds with nobody else around brings any state left behind back to
\* nothing loaded; on a Pi 4 it must have been at most one overlay.  One that failed because
\* the device is in use has left the overlays in place (kernel/README.md:214).
UnloadCleans ==
    undisturbed =>
        /\ cleaner = "cleaned" =>
               /\ ~Loaded /\ ~node
               /\ hardware = "bsc-target-pi3" \/ overlaysAtStart <= 1 => overlays = <<>>
        /\ user # NoOne => Len(overlays) = overlaysAtStart
=============================================================================
