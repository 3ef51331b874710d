--------------------------- MODULE DriverGuardProofs ---------------------------
(***************************************************************************)
(* What the guards promise, for every number of launchers, failing         *)
(* commands, kills and runs of --unload.  The invariant says where in a    *)
(* launcher's run its guard owns what, that the overlays and the module    *)
(* are accounted for until somebody runs --unload, and what --unload has   *)
(* done when nobody disturbs it.                                           *)
(***************************************************************************)
EXTENDS DriverGuard, TLAPS, SequenceTheorems, FiniteSetTheorems

USE LaunchersAssumption, BoundsAssumption

\* TypeOK in three parts: Booleans, the machine and --unload, the launchers.
FlagTypes ==
    /\ node \in BOOLEAN /\ moduleSeen \in BOOLEAN /\ undisturbed \in BOOLEAN

MachineTypes ==
    /\ hardware \in OverlayNames
    /\ overlays \in Seq(Launchers) /\ module \in Launchers \union {NoOne}
    /\ user \in Users /\ cleaner \in CleanPoints
    /\ faults \in Nat /\ kills \in Nat /\ unloads \in Nat /\ overlaysAtStart \in Nat

LaunchTypes ==
    /\ pc \in [Launchers -> Points]
    /\ overlayLoaded \in [Launchers -> BOOLEAN] /\ moduleLoaded \in [Launchers -> BOOLEAN]
    /\ removalsFailed \in [Launchers -> Nat] /\ served \in SUBSET Launchers

\* Where launcher l is tells what its guard owns, whether it has served, and how many
\* removals have failed.
GuardInv(l) ==
    /\ pc[l] \in {"idle", "checked", "unused"} => ~overlayLoaded[l] /\ ~moduleLoaded[l]
    /\ pc[l] = "applied" => overlayLoaded[l] /\ ~moduleLoaded[l]
    /\ pc[l] \in {"inserted", "ready", "serving"} => overlayLoaded[l]
    /\ pc[l] \in {"unloadOverlay", "dropOverlay"} => ~moduleLoaded[l]
    /\ pc[l] \in {"idle", "checked", "unused", "applied", "inserted", "ready"} => l \notin
         served
    /\ pc[l] \in {"drop", "dropOverlay"} /\ l \in served => removalsFailed[l] > 0

GuardsInv == \A l \in Launchers : GuardInv(l)

\* A device node and an open device need the module.
MachineInv == (node => Loaded) /\ (user # NoOne => Loaded)

\* Until --unload is run, the guards account for the overlays and the module.
AccountInv ==
    unloads = 0 =>
        /\ cleaner = "idle"
        /\ Len(overlays) = Cardinality(Holders)
        /\ \A l \in Launchers : moduleLoaded[l] => module = l

\* An undisturbed --unload, from its look at the module on.
CleanInv ==
    undisturbed =>
        /\ cleaner # "idle"
        /\ cleaner \in {"seen", "module", "refused"} => Len(overlays) = overlaysAtStart
        /\ cleaner \in {"seen", "module"} => (moduleSeen <=> Loaded)
        /\ cleaner = "overlays" =>
               /\ ~Loaded
               /\ Len(overlays) <= overlaysAtStart
        /\ cleaner = "cleaned" => ~Loaded

IInv == /\ FlagTypes /\ MachineTypes /\ LaunchTypes
        /\ GuardsInv /\ EndedClean /\ MachineInv /\ AccountInv /\ CleanInv /\ UnloadCleans

-----------------------------------------------------------------------------
(* Facts about the operators of the model. *)

\* The three parts make the type invariant.
LEMMA TypeParts == TypeOK <=> FlagTypes /\ MachineTypes /\ LaunchTypes
  BY DEF TypeOK, FlagTypes, MachineTypes, LaunchTypes

\* The empty sequence, in the form the provers need it in.
LEMMA EmptyInSeq == ASSUME NEW S PROVE <<>> \in Seq(S) /\ Len(<<>>) = 0
  BY EmptySeq

\* dtoverlay -r leaves one overlay less.
LEMMA OneOverlayLess ==
    ASSUME overlays \in Seq(Launchers), OverlayRemoved
    PROVE  /\ overlays' \in Seq(Launchers)
           /\ Len(overlays) \in Nat \ {0} /\ Len(overlays') = Len(overlays) - 1
<1>1. Len(overlays) \in Nat /\ \A i \in 1..Len(overlays) : overlays[i] \in Launchers
  BY LenProperties, ElementOfSeq
<1>2. Len(overlays) # 0
  BY EmptySeq DEF OverlayRemoved
<1>3. PICK n \in Nat : n = Len(overlays) - 1 /\ n + 1 = Len(overlays)
  BY <1>1, <1>2
<1>4. \A i \in 1..n : overlays[i] \in Launchers
  BY <1>1, <1>3
<1>5. overlays' = SubSeq(overlays, 1, n)
  BY <1>3 DEF OverlayRemoved
<1>6. /\ SubSeq(overlays, 1, n) \in Seq(Launchers)
      /\ Len(SubSeq(overlays, 1, n)) = IF 1 <= n THEN n - 1 + 1 ELSE 0
  BY <1>3, <1>4, SubSeqProperties
<1> QED BY <1>1, <1>3, <1>5, <1>6

\* A guard that takes an overlay.
LEMMA HolderAdded ==
    ASSUME overlayLoaded \in [Launchers -> BOOLEAN], NEW l \in Launchers, ~overlayLoaded[l],
           overlayLoaded' = [overlayLoaded EXCEPT ![l] = TRUE]
    PROVE  Cardinality(Holders') = Cardinality(Holders) + 1
<1>1. Holders' = Holders \union {l} /\ l \notin Holders /\ Holders \in SUBSET Launchers
  BY DEF Holders
<1>2. IsFiniteSet(Holders)
  BY <1>1, FS_Subset
<1> QED BY <1>1, <1>2, FS_AddElement

\* A guard that gives its overlay back.
LEMMA HolderRemoved ==
    ASSUME overlayLoaded \in [Launchers -> BOOLEAN], NEW l \in Launchers, overlayLoaded[l],
           overlayLoaded' = [overlayLoaded EXCEPT ![l] = FALSE]
    PROVE  Cardinality(Holders') = Cardinality(Holders) - 1
<1>1. Holders' = Holders \ {l} /\ l \in Holders /\ Holders \in SUBSET Launchers
  BY DEF Holders
<1>2. IsFiniteSet(Holders)
  BY <1>1, FS_Subset
<1> QED BY <1>1, <1>2, FS_RemoveElement

\* A guard that has an overlay means that there is one.
LEMMA HolderCounts ==
    ASSUME LaunchTypes, NEW l \in Launchers, overlayLoaded[l],
           Len(overlays) = Cardinality(Holders)
    PROVE  overlays # <<>>
<1>1. Holders \in SUBSET Launchers /\ l \in Holders
  BY DEF Holders
<1>2. IsFiniteSet(Holders)
  BY <1>1, FS_Subset
<1>3. Cardinality(Holders) # 0
  BY <1>1, <1>2, FS_EmptySet
<1> QED BY <1>3, EmptySeq

-----------------------------------------------------------------------------
(* The steps, one by one. *)

\* The ways through unload(): called by main(), and by the drop of the guard.
ModuleWays  == {<<"unload", "unloadOverlay", "drop">>, <<"drop", "dropOverlay", "ended">>}
OverlayWays == {<<"unloadOverlay", "ended", "drop">>, <<"dropOverlay", "ended", "ended">>}

UnloadsModule(l)  == \E way \in ModuleWays : UnloadModule(l, way[1], way[2], way[3])
UnloadsOverlay(l) == \E way \in OverlayWays : UnloadOverlay(l, way[1], way[2], way[3])

\* unload() is called in one of these ways.
LEMMA UnloadWays ==
    ASSUME NEW l, Unload(l) PROVE UnloadsModule(l) \/ UnloadsOverlay(l)
<1>1. CASE UnloadModule(l, "unload", "unloadOverlay", "drop")
           \/ UnloadModule(l, "drop", "dropOverlay", "ended")
  BY <1>1 DEF UnloadsModule, ModuleWays
<1>2. CASE UnloadOverlay(l, "unloadOverlay", "ended", "drop")
           \/ UnloadOverlay(l, "dropOverlay", "ended", "ended")
  BY <1>2 DEF UnloadsOverlay, OverlayWays
<1> QED BY <1>1, <1>2 DEF Unload

\* A step is one of a launcher, of --unload or of the machine.
LEMMA Steps ==
    ASSUME [Next]_vars
    PROVE  \/ \E l \in Launchers :
                \/ CheckModule(l) \/ CheckOverlay(l) \/ CheckFails(l) \/ ApplyOverlay(l)
                \/ InsertModule(l) \/ AwaitNode(l) \/ OpenDevice(l) \/ ServeReturns(l)
                \/ UnloadsModule(l) \/ UnloadsOverlay(l) \/ Kill(l)
           \/ CleanBegin \/ CleanCheckDevice \/ CleanModule \/ CleanOverlays
           \/ NodeAppears \/ OtherUser \/ UNCHANGED vars
  BY UnloadWays DEF Next, Launch, Clean

\* Boolean variables stay Boolean.
LEMMA NextFlags ==
    ASSUME FlagTypes, [Next]_vars PROVE FlagTypes'
<1> USE DEF FlagTypes, vars, launchVars, machineVars, guardVars, cleanVars, Launched,
     Cleaning, Goto, Succeeds, Fault, RemovalFailed, Loaded
<1>1. ASSUME NEW l \in Launchers, CheckModule(l) PROVE FlagTypes'
  BY <1>1 DEF CheckModule
<1>2. ASSUME NEW l \in Launchers, CheckOverlay(l) PROVE FlagTypes'
  BY <1>2 DEF CheckOverlay
<1>3. ASSUME NEW l \in Launchers, CheckFails(l) PROVE FlagTypes'
  BY <1>3 DEF CheckFails
<1>4. ASSUME NEW l \in Launchers, ApplyOverlay(l) PROVE FlagTypes'
  BY <1>4 DEF ApplyOverlay
<1>5. ASSUME NEW l \in Launchers, InsertModule(l) PROVE FlagTypes'
  BY <1>5 DEF InsertModule
<1>6. ASSUME NEW l \in Launchers, AwaitNode(l) PROVE FlagTypes'
  BY <1>6 DEF AwaitNode
<1>7. ASSUME NEW l \in Launchers, OpenDevice(l) PROVE FlagTypes'
  BY <1>7 DEF OpenDevice
<1>8. ASSUME NEW l \in Launchers, ServeReturns(l) PROVE FlagTypes'
  BY <1>8 DEF ServeReturns
<1>9. ASSUME NEW l \in Launchers, NEW way \in ModuleWays, UnloadModule(l, way[1], way[2], way[3])
      PROVE FlagTypes'
  BY <1>9 DEF UnloadModule, ModuleWays, RmmodFails, OverlayRemovalFails, Rmmod, RmmodPossible,
     OverlayRemoved
<1>10. ASSUME NEW l \in Launchers, NEW way \in OverlayWays, UnloadOverlay(l, way[1], way[2], way[3])
       PROVE FlagTypes'
  BY <1>10 DEF UnloadOverlay, OverlayWays, RmmodFails, OverlayRemovalFails, Rmmod,
     RmmodPossible, OverlayRemoved
<1>11. ASSUME NEW l \in Launchers, Kill(l) PROVE FlagTypes'
  BY <1>11 DEF Kill
<1>12. CASE CleanBegin
  BY <1>12 DEF CleanBegin
<1>13. CASE CleanCheckDevice
  BY <1>13 DEF CleanCheckDevice
<1>14. CASE CleanModule
  BY <1>14 DEF CleanModule, RmmodFails, OverlayRemovalFails, Rmmod, RmmodPossible,
     OverlayRemoved
<1>15. CASE CleanOverlays
  BY <1>15 DEF CleanOverlays, RmmodFails, OverlayRemovalFails, Rmmod, RmmodPossible,
     OverlayRemoved
<1>16. CASE NodeAppears
  BY <1>16 DEF NodeAppears
<1>17. CASE OtherUser
  BY <1>17 DEF OtherUser
<1>18. CASE UNCHANGED vars
  BY <1>18
<1> QED BY <1>1, <1>2, <1>3, <1>4, <1>5, <1>6, <1>7, <1>8, <1>9, <1>10, <1>11, <1>12, <1>13,
           <1>14, <1>15, <1>16, <1>17, <1>18, Steps DEF UnloadsModule, UnloadsOverlay

\* The machine and --unload keep their types.
LEMMA NextMachineTypes ==
    ASSUME FlagTypes, MachineTypes, [Next]_vars PROVE MachineTypes'
<1> USE DEF MachineTypes, CleanPoints, Users, vars, launchVars, machineVars, guardVars,
     cleanVars, Launched, Cleaning, Goto, Succeeds, Fault, RemovalFailed, Loaded
<1>1. ASSUME NEW l \in Launchers, CheckModule(l) PROVE MachineTypes'
  BY <1>1 DEF CheckModule
<1>2. ASSUME NEW l \in Launchers, CheckOverlay(l) PROVE MachineTypes'
  BY <1>2 DEF CheckOverlay
<1>3. ASSUME NEW l \in Launchers, CheckFails(l) PROVE MachineTypes'
  BY <1>3 DEF CheckFails
<1>4. ASSUME NEW l \in Launchers, ApplyOverlay(l) PROVE MachineTypes'
  <2>1. Append(overlays, l) \in Seq(Launchers)
    BY AppendProperties
  <2>2. UNCHANGED <<hardware, module, user, cleaner, kills, unloads, overlaysAtStart>>
    BY <1>4 DEF ApplyOverlay
  <2>3. overlays' \in {overlays, Append(overlays, l)} /\ faults' \in {faults, faults + 1}
    BY <1>4 DEF ApplyOverlay
  <2> QED BY <2>1, <2>2, <2>3
<1>5. ASSUME NEW l \in Launchers, InsertModule(l) PROVE MachineTypes'
  BY <1>5 DEF InsertModule
<1>6. ASSUME NEW l \in Launchers, AwaitNode(l) PROVE MachineTypes'
  BY <1>6 DEF AwaitNode
<1>7. ASSUME NEW l \in Launchers, OpenDevice(l) PROVE MachineTypes'
  BY <1>7 DEF OpenDevice
<1>8. ASSUME NEW l \in Launchers, ServeReturns(l) PROVE MachineTypes'
  BY <1>8 DEF ServeReturns
<1>9. ASSUME NEW l \in Launchers, NEW way \in ModuleWays, UnloadModule(l, way[1], way[2], way[3])
      PROVE MachineTypes'
  BY <1>9 DEF UnloadModule, ModuleWays, RmmodFails, OverlayRemovalFails, Rmmod, RmmodPossible,
     OverlayRemoved
<1>10. ASSUME NEW l \in Launchers, NEW way \in OverlayWays, UnloadOverlay(l, way[1], way[2], way[3])
       PROVE MachineTypes'
  <2>1. CASE OverlayRemoved
    <3>1. overlays' \in Seq(Launchers)
      BY <2>1, OneOverlayLess
    <3> QED BY <1>10, <2>1, <3>1 DEF UnloadOverlay, OverlayWays, OverlayRemoved, RmmodFails
  <2>2. CASE ~OverlayRemoved
    BY <1>10, <2>2 DEF UnloadOverlay, OverlayWays, OverlayRemovalFails
  <2> QED BY <2>1, <2>2
<1>11. ASSUME NEW l \in Launchers, Kill(l) PROVE MachineTypes'
  BY <1>11 DEF Kill
<1>12. CASE CleanBegin
  <2>1. Len(overlays) \in Nat
    BY LenProperties
  <2> QED BY <1>12, <2>1 DEF CleanBegin
<1>13. CASE CleanCheckDevice
  BY <1>13 DEF CleanCheckDevice
<1>14. CASE CleanModule
  BY <1>14 DEF CleanModule, RmmodFails, OverlayRemovalFails, Rmmod, RmmodPossible,
     OverlayRemoved
<1>15. CASE CleanOverlays
  <2>1. CASE OverlayRemoved
    <3>1. overlays' \in Seq(Launchers)
      BY <2>1, OneOverlayLess
    <3> QED BY <1>15, <2>1, <3>1 DEF CleanOverlays, AfterRemoval, OverlayRemoved, RmmodFails
  <2>2. CASE ~OverlayRemoved
    BY <1>15, <2>2 DEF CleanOverlays, AfterRemoval, OverlayRemovalFails
  <2> QED BY <2>1, <2>2
<1>16. CASE NodeAppears
  BY <1>16 DEF NodeAppears
<1>17. CASE OtherUser
  BY <1>17 DEF OtherUser
<1>18. CASE UNCHANGED vars
  BY <1>18
<1> QED BY <1>1, <1>2, <1>3, <1>4, <1>5, <1>6, <1>7, <1>8, <1>9, <1>10, <1>11, <1>12, <1>13,
           <1>14, <1>15, <1>16, <1>17, <1>18, Steps DEF UnloadsModule, UnloadsOverlay

\* The launchers keep their types.
LEMMA NextLaunchTypes ==
    ASSUME LaunchTypes, [Next]_vars PROVE LaunchTypes'
<1> USE DEF LaunchTypes, vars, launchVars, machineVars, guardVars, cleanVars, Launched,
     Cleaning, Goto, Succeeds, Fault, RemovalFailed, Loaded
<1>1. ASSUME NEW l \in Launchers, CheckModule(l) PROVE LaunchTypes'
  BY <1>1 DEF CheckModule, Points
<1>2. ASSUME NEW l \in Launchers, CheckOverlay(l) PROVE LaunchTypes'
  BY <1>2 DEF CheckOverlay, Points
<1>3. ASSUME NEW l \in Launchers, CheckFails(l) PROVE LaunchTypes'
  BY <1>3 DEF CheckFails, Points
<1>4. ASSUME NEW l \in Launchers, ApplyOverlay(l) PROVE LaunchTypes'
  BY <1>4 DEF ApplyOverlay, Points
<1>5. ASSUME NEW l \in Launchers, InsertModule(l) PROVE LaunchTypes'
  BY <1>5 DEF InsertModule, Points
<1>6. ASSUME NEW l \in Launchers, AwaitNode(l) PROVE LaunchTypes'
  BY <1>6 DEF AwaitNode, Points
<1>7. ASSUME NEW l \in Launchers, OpenDevice(l) PROVE LaunchTypes'
  BY <1>7 DEF OpenDevice, Points
<1>8. ASSUME NEW l \in Launchers, ServeReturns(l) PROVE LaunchTypes'
  BY <1>8 DEF ServeReturns, Points
<1>9. ASSUME NEW l \in Launchers, NEW way \in ModuleWays, UnloadModule(l, way[1], way[2], way[3])
      PROVE LaunchTypes'
  <2>1. pc' \in [Launchers -> Points]
    BY <1>9 DEF UnloadModule, ModuleWays, Points
  <2>2. moduleLoaded' = moduleLoaded \/ moduleLoaded' = [moduleLoaded EXCEPT ![l] = FALSE]
    BY <1>9 DEF UnloadModule, ModuleWays
  <2>3. removalsFailed' = removalsFailed \/ removalsFailed' = [removalsFailed EXCEPT ![l] =
       removalsFailed[l] + 1]
    BY <1>9 DEF UnloadModule, ModuleWays
  <2>4. UNCHANGED <<overlayLoaded, served>>
    BY <1>9 DEF UnloadModule, ModuleWays
  <2>5. moduleLoaded' \in [Launchers -> BOOLEAN]
    BY <2>2
  <2>6. removalsFailed' \in [Launchers -> Nat]
    BY <2>3
  <2> QED BY <2>1, <2>4, <2>5, <2>6
<1>10. ASSUME NEW l \in Launchers, NEW way \in OverlayWays, UnloadOverlay(l, way[1], way[2], way[3])
       PROVE LaunchTypes'
  <2>1. pc' \in [Launchers -> Points]
    BY <1>10 DEF UnloadOverlay, OverlayWays, Points
  <2>2. overlayLoaded' = overlayLoaded \/ overlayLoaded' = [overlayLoaded EXCEPT ![l] = FALSE]
    BY <1>10 DEF UnloadOverlay, OverlayWays
  <2>3. removalsFailed' = removalsFailed \/ removalsFailed' = [removalsFailed EXCEPT ![l] =
       removalsFailed[l] + 1]
    BY <1>10 DEF UnloadOverlay, OverlayWays
  <2>4. UNCHANGED <<moduleLoaded, served>>
    BY <1>10 DEF UnloadOverlay, OverlayWays
  <2>5. overlayLoaded' \in [Launchers -> BOOLEAN]
    BY <2>2
  <2>6. removalsFailed' \in [Launchers -> Nat]
    BY <2>3
  <2> QED BY <2>1, <2>4, <2>5, <2>6
<1>11. ASSUME NEW l \in Launchers, Kill(l) PROVE LaunchTypes'
  BY <1>11 DEF Kill, Points
<1>12. CASE CleanBegin
  BY <1>12 DEF CleanBegin
<1>13. CASE CleanCheckDevice
  BY <1>13 DEF CleanCheckDevice
<1>14. CASE CleanModule
  BY <1>14 DEF CleanModule, RmmodFails, OverlayRemovalFails, Rmmod, RmmodPossible,
     OverlayRemoved
<1>15. CASE CleanOverlays
  BY <1>15 DEF CleanOverlays, RmmodFails, OverlayRemovalFails, Rmmod, RmmodPossible,
     OverlayRemoved
<1>16. CASE NodeAppears
  BY <1>16 DEF NodeAppears
<1>17. CASE OtherUser
  BY <1>17 DEF OtherUser
<1>18. CASE UNCHANGED vars
  BY <1>18
<1> QED BY <1>1, <1>2, <1>3, <1>4, <1>5, <1>6, <1>7, <1>8, <1>9, <1>10, <1>11, <1>12, <1>13,
           <1>14, <1>15, <1>16, <1>17, <1>18, Steps DEF UnloadsModule, UnloadsOverlay

\* Where a launcher is tells what its guard owns; a clean end leaves nothing.
LEMMA NextGuards ==
    ASSUME LaunchTypes, GuardsInv, EndedClean, [Next]_vars PROVE GuardsInv' /\ EndedClean'
<1> USE DEF LaunchTypes, GuardsInv, GuardInv, EndedClean, vars, launchVars, machineVars,
     guardVars, cleanVars, Launched, Cleaning, Goto, Succeeds, Fault, RemovalFailed, Loaded
<1>1. ASSUME NEW l \in Launchers, CheckModule(l) PROVE GuardsInv' /\ EndedClean'
  BY <1>1 DEF CheckModule
<1>2. ASSUME NEW l \in Launchers, CheckOverlay(l) PROVE GuardsInv' /\ EndedClean'
  BY <1>2 DEF CheckOverlay
<1>3. ASSUME NEW l \in Launchers, CheckFails(l) PROVE GuardsInv' /\ EndedClean'
  BY <1>3 DEF CheckFails
<1>4. ASSUME NEW l \in Launchers, ApplyOverlay(l) PROVE GuardsInv' /\ EndedClean'
  BY <1>4 DEF ApplyOverlay
<1>5. ASSUME NEW l \in Launchers, InsertModule(l) PROVE GuardsInv' /\ EndedClean'
  BY <1>5 DEF InsertModule
<1>6. ASSUME NEW l \in Launchers, AwaitNode(l) PROVE GuardsInv' /\ EndedClean'
  BY <1>6 DEF AwaitNode
<1>7. ASSUME NEW l \in Launchers, OpenDevice(l) PROVE GuardsInv' /\ EndedClean'
  BY <1>7 DEF OpenDevice
<1>8. ASSUME NEW l \in Launchers, ServeReturns(l) PROVE GuardsInv' /\ EndedClean'
  BY <1>8 DEF ServeReturns
<1>9. ASSUME NEW l \in Launchers, NEW way \in ModuleWays, UnloadModule(l, way[1], way[2], way[3])
      PROVE GuardsInv' /\ EndedClean'
  BY <1>9 DEF UnloadModule, ModuleWays, RmmodFails, OverlayRemovalFails, Rmmod, RmmodPossible,
     OverlayRemoved
<1>10. ASSUME NEW l \in Launchers, NEW way \in OverlayWays, UnloadOverlay(l, way[1], way[2], way[3])
       PROVE GuardsInv' /\ EndedClean'
  <2>1. /\ pc[l] = way[1] /\ ~moduleLoaded[l] /\ UNCHANGED <<moduleLoaded, served>>
        /\ pc[l] \in {"unloadOverlay", "dropOverlay"}
    BY <1>10 DEF UnloadOverlay, OverlayWays
  <2>2. CASE /\ pc' = [pc EXCEPT ![l] = way[3]] /\ UNCHANGED overlayLoaded
             /\ removalsFailed' = [removalsFailed EXCEPT ![l] = removalsFailed[l] + 1]
    BY <2>1, <2>2 DEF OverlayWays
  <2>3. CASE /\ pc' = [pc EXCEPT ![l] = way[2]] /\ UNCHANGED removalsFailed
             /\ overlayLoaded' = [overlayLoaded EXCEPT ![l] = FALSE]
    BY <2>1, <2>3 DEF OverlayWays
  <2>4. CASE /\ pc' = [pc EXCEPT ![l] = way[2]] /\ UNCHANGED <<removalsFailed, overlayLoaded>>
             /\ ~overlayLoaded[l]
    BY <2>1, <2>4 DEF OverlayWays
  <2> QED BY <1>10, <2>2, <2>3, <2>4 DEF UnloadOverlay
<1>11. ASSUME NEW l \in Launchers, Kill(l) PROVE GuardsInv' /\ EndedClean'
  BY <1>11 DEF Kill
<1>12. CASE CleanBegin
  BY <1>12 DEF CleanBegin
<1>13. CASE CleanCheckDevice
  BY <1>13 DEF CleanCheckDevice
<1>14. CASE CleanModule
  BY <1>14 DEF CleanModule, RmmodFails, OverlayRemovalFails, Rmmod, RmmodPossible,
     OverlayRemoved
<1>15. CASE CleanOverlays
  BY <1>15 DEF CleanOverlays, RmmodFails, OverlayRemovalFails, Rmmod, RmmodPossible,
     OverlayRemoved
<1>16. CASE NodeAppears
  BY <1>16 DEF NodeAppears
<1>17. CASE OtherUser
  BY <1>17 DEF OtherUser
<1>18. CASE UNCHANGED vars
  BY <1>18
<1> QED BY <1>1, <1>2, <1>3, <1>4, <1>5, <1>6, <1>7, <1>8, <1>9, <1>10, <1>11, <1>12, <1>13,
           <1>14, <1>15, <1>16, <1>17, <1>18, Steps DEF UnloadsModule, UnloadsOverlay

\* The node and the open device need the module.
LEMMA NextMachine ==
    ASSUME MachineTypes, MachineInv, [Next]_vars PROVE MachineInv'
<1> USE DEF MachineInv, MachineTypes, vars, launchVars, machineVars, guardVars, cleanVars,
     Launched, Cleaning, Goto, Succeeds, Fault, RemovalFailed, Loaded
<1>1. ASSUME NEW l \in Launchers, CheckModule(l) PROVE MachineInv'
  BY <1>1 DEF CheckModule
<1>2. ASSUME NEW l \in Launchers, CheckOverlay(l) PROVE MachineInv'
  BY <1>2 DEF CheckOverlay
<1>3. ASSUME NEW l \in Launchers, CheckFails(l) PROVE MachineInv'
  BY <1>3 DEF CheckFails
<1>4. ASSUME NEW l \in Launchers, ApplyOverlay(l) PROVE MachineInv'
  BY <1>4 DEF ApplyOverlay
<1>5. ASSUME NEW l \in Launchers, InsertModule(l) PROVE MachineInv'
  BY <1>5 DEF InsertModule
<1>6. ASSUME NEW l \in Launchers, AwaitNode(l) PROVE MachineInv'
  BY <1>6 DEF AwaitNode
<1>7. ASSUME NEW l \in Launchers, OpenDevice(l) PROVE MachineInv'
  BY <1>7 DEF OpenDevice
<1>8. ASSUME NEW l \in Launchers, ServeReturns(l) PROVE MachineInv'
  BY <1>8 DEF ServeReturns
<1>9. ASSUME NEW l \in Launchers, NEW way \in ModuleWays, UnloadModule(l, way[1], way[2], way[3])
      PROVE MachineInv'
  BY <1>9 DEF UnloadModule, ModuleWays, RmmodFails, OverlayRemovalFails, Rmmod, RmmodPossible,
     OverlayRemoved
<1>10. ASSUME NEW l \in Launchers, NEW way \in OverlayWays, UnloadOverlay(l, way[1], way[2], way[3])
       PROVE MachineInv'
  BY <1>10 DEF UnloadOverlay, OverlayWays, RmmodFails, OverlayRemovalFails, Rmmod,
     RmmodPossible, OverlayRemoved
<1>11. ASSUME NEW l \in Launchers, Kill(l) PROVE MachineInv'
  BY <1>11 DEF Kill
<1>12. CASE CleanBegin
  BY <1>12 DEF CleanBegin
<1>13. CASE CleanCheckDevice
  BY <1>13 DEF CleanCheckDevice
<1>14. CASE CleanModule
  BY <1>14 DEF CleanModule, RmmodFails, OverlayRemovalFails, Rmmod, RmmodPossible,
     OverlayRemoved
<1>15. CASE CleanOverlays
  BY <1>15 DEF CleanOverlays, RmmodFails, OverlayRemovalFails, Rmmod, RmmodPossible,
     OverlayRemoved
<1>16. CASE NodeAppears
  BY <1>16 DEF NodeAppears
<1>17. CASE OtherUser
  BY <1>17 DEF OtherUser
<1>18. CASE UNCHANGED vars
  BY <1>18
<1> QED BY <1>1, <1>2, <1>3, <1>4, <1>5, <1>6, <1>7, <1>8, <1>9, <1>10, <1>11, <1>12, <1>13,
           <1>14, <1>15, <1>16, <1>17, <1>18, Steps DEF UnloadsModule, UnloadsOverlay

\* The guards account for the overlays and the module.
LEMMA NextAccount ==
    ASSUME MachineTypes, LaunchTypes, GuardsInv, AccountInv, [Next]_vars PROVE AccountInv'
<1> USE DEF MachineTypes, LaunchTypes, AccountInv, vars, launchVars, machineVars, guardVars,
     cleanVars, Launched, Cleaning, Goto, Succeeds, Fault, RemovalFailed, Loaded
<1>1. ASSUME NEW l \in Launchers, CheckModule(l) PROVE AccountInv'
  <2>1. UNCHANGED Holders
    BY <1>1 DEF CheckModule, Holders
  <2> QED BY <1>1, <2>1 DEF CheckModule
<1>2. ASSUME NEW l \in Launchers, CheckOverlay(l) PROVE AccountInv'
  <2>1. UNCHANGED Holders
    BY <1>2 DEF CheckOverlay, Holders
  <2> QED BY <1>2, <2>1 DEF CheckOverlay
<1>3. ASSUME NEW l \in Launchers, CheckFails(l) PROVE AccountInv'
  <2>1. UNCHANGED Holders
    BY <1>3 DEF CheckFails, Holders
  <2> QED BY <1>3, <2>1 DEF CheckFails
<1>4. ASSUME NEW l \in Launchers, ApplyOverlay(l) PROVE AccountInv'
  <2>1. CASE /\ overlays' = Append(overlays, l)
             /\ overlayLoaded' = [overlayLoaded EXCEPT ![l] = TRUE]
    <3>1. ~overlayLoaded[l]
      BY <1>4 DEF ApplyOverlay, GuardsInv, GuardInv
    <3>2. Cardinality(Holders') = Cardinality(Holders) + 1
      BY <2>1, <3>1, HolderAdded
    <3>3. Len(overlays') = Len(overlays) + 1
      BY <2>1, AppendProperties
    <3> QED BY <1>4, <3>2, <3>3 DEF ApplyOverlay
  <2>2. CASE UNCHANGED <<overlays, overlayLoaded>>
    <3>1. UNCHANGED Holders
      BY <2>2 DEF Holders
    <3> QED BY <1>4, <2>2, <3>1 DEF ApplyOverlay
  <2> QED BY <1>4, <2>1, <2>2 DEF ApplyOverlay
<1>5. ASSUME NEW l \in Launchers, InsertModule(l) PROVE AccountInv'
  <2>1. UNCHANGED <<overlays, Holders>>
    BY <1>5 DEF InsertModule, Holders
  <2>2. ASSUME unloads = 0, NEW m \in Launchers, moduleLoaded'[m] PROVE module' = m
    BY <1>5, <2>2 DEF InsertModule
  <2> QED BY <1>5, <2>1, <2>2 DEF InsertModule
<1>6. ASSUME NEW l \in Launchers, AwaitNode(l) PROVE AccountInv'
  <2>1. UNCHANGED Holders
    BY <1>6 DEF AwaitNode, Holders
  <2> QED BY <1>6, <2>1 DEF AwaitNode
<1>7. ASSUME NEW l \in Launchers, OpenDevice(l) PROVE AccountInv'
  <2>1. UNCHANGED Holders
    BY <1>7 DEF OpenDevice, Holders
  <2> QED BY <1>7, <2>1 DEF OpenDevice
<1>8. ASSUME NEW l \in Launchers, ServeReturns(l) PROVE AccountInv'
  <2>1. UNCHANGED Holders
    BY <1>8 DEF ServeReturns, Holders
  <2> QED BY <1>8, <2>1 DEF ServeReturns
<1>9. ASSUME NEW l \in Launchers, NEW way \in ModuleWays, UnloadModule(l, way[1], way[2], way[3])
      PROVE AccountInv'
  <2>1. UNCHANGED <<overlays, Holders, cleaner, unloads>>
    BY <1>9 DEF UnloadModule, Holders, RmmodFails, Rmmod
  <2>2. ASSUME unloads = 0, NEW m \in Launchers, moduleLoaded'[m] PROVE module' = m
    <3>1. CASE moduleLoaded[l] /\ Rmmod /\ moduleLoaded' = [moduleLoaded EXCEPT ![l] = FALSE]
      BY <2>2, <3>1
    <3>2. CASE UNCHANGED <<module, moduleLoaded>>
      BY <2>2, <3>2
    <3> QED BY <1>9, <3>1, <3>2 DEF UnloadModule, RmmodFails
  <2> QED BY <2>1, <2>2
<1>10. ASSUME NEW l \in Launchers, NEW way \in OverlayWays, UnloadOverlay(l, way[1], way[2], way[3])
       PROVE AccountInv'
  <2>1. UNCHANGED <<module, moduleLoaded, cleaner, unloads>>
    BY <1>10 DEF UnloadOverlay, OverlayRemovalFails, OverlayRemoved
  <2>2. CASE /\ overlayLoaded[l] /\ OverlayRemoved
             /\ overlayLoaded' = [overlayLoaded EXCEPT ![l] = FALSE]
    <3>1. Cardinality(Holders') = Cardinality(Holders) - 1
      BY <2>2, HolderRemoved
    <3>2. Len(overlays') = Len(overlays) - 1
      BY <2>2, OneOverlayLess
    <3> QED BY <2>1, <3>1, <3>2
  <2>3. CASE UNCHANGED <<overlays, overlayLoaded>>
    <3>1. UNCHANGED Holders
      BY <2>3 DEF Holders
    <3> QED BY <2>1, <2>3, <3>1
  <2> QED BY <1>10, <2>2, <2>3 DEF UnloadOverlay, OverlayRemovalFails
<1>11. ASSUME NEW l \in Launchers, Kill(l) PROVE AccountInv'
  <2>1. UNCHANGED Holders
    BY <1>11 DEF Kill, Holders
  <2> QED BY <1>11, <2>1 DEF Kill
<1>12. CASE CleanBegin
  BY <1>12 DEF CleanBegin
<1>13. CASE CleanCheckDevice
  <2>1. UNCHANGED Holders
    BY <1>13 DEF CleanCheckDevice, Holders
  <2> QED BY <1>13, <2>1 DEF CleanCheckDevice
<1>14. CASE CleanModule
  BY <1>14 DEF CleanModule
<1>15. CASE CleanOverlays
  BY <1>15 DEF CleanOverlays
<1>16. CASE NodeAppears
  <2>1. UNCHANGED Holders
    BY <1>16 DEF NodeAppears, Holders
  <2> QED BY <1>16, <2>1 DEF NodeAppears
<1>17. CASE OtherUser
  <2>1. UNCHANGED Holders
    BY <1>17 DEF OtherUser, Holders
  <2> QED BY <1>17, <2>1 DEF OtherUser
<1>18. CASE UNCHANGED vars
  <2>1. UNCHANGED Holders
    BY <1>18 DEF Holders
  <2> QED BY <1>18, <2>1
<1> QED BY <1>1, <1>2, <1>3, <1>4, <1>5, <1>6, <1>7, <1>8, <1>9, <1>10, <1>11, <1>12, <1>13,
           <1>14, <1>15, <1>16, <1>17, <1>18, Steps DEF UnloadsModule, UnloadsOverlay

\* What --unload has done as long as nobody disturbs it.
LEMMA NextClean ==
    ASSUME FlagTypes, MachineTypes, MachineInv, CleanInv, UnloadCleans, [Next]_vars
    PROVE  CleanInv' /\ UnloadCleans'
<1> USE DEF MachineTypes, MachineInv, CleanInv, UnloadCleans, vars, launchVars, machineVars,
     guardVars, cleanVars, Launched, Cleaning, Goto, Succeeds, Fault, RemovalFailed, Loaded
<1>1. ASSUME NEW l \in Launchers, CheckModule(l) PROVE CleanInv' /\ UnloadCleans'
  BY <1>1 DEF CheckModule
<1>2. ASSUME NEW l \in Launchers, CheckOverlay(l) PROVE CleanInv' /\ UnloadCleans'
  BY <1>2 DEF CheckOverlay
<1>3. ASSUME NEW l \in Launchers, CheckFails(l) PROVE CleanInv' /\ UnloadCleans'
  BY <1>3 DEF CheckFails
<1>4. ASSUME NEW l \in Launchers, ApplyOverlay(l) PROVE CleanInv' /\ UnloadCleans'
  BY <1>4 DEF ApplyOverlay
<1>5. ASSUME NEW l \in Launchers, InsertModule(l) PROVE CleanInv' /\ UnloadCleans'
  BY <1>5 DEF InsertModule
<1>6. ASSUME NEW l \in Launchers, AwaitNode(l) PROVE CleanInv' /\ UnloadCleans'
  BY <1>6 DEF AwaitNode
<1>7. ASSUME NEW l \in Launchers, OpenDevice(l) PROVE CleanInv' /\ UnloadCleans'
  BY <1>7 DEF OpenDevice
<1>8. ASSUME NEW l \in Launchers, ServeReturns(l) PROVE CleanInv' /\ UnloadCleans'
  BY <1>8 DEF ServeReturns
<1>9. ASSUME NEW l \in Launchers, NEW way \in ModuleWays, UnloadModule(l, way[1], way[2], way[3])
      PROVE CleanInv' /\ UnloadCleans'
  BY <1>9 DEF UnloadModule
<1>10. ASSUME NEW l \in Launchers, NEW way \in OverlayWays, UnloadOverlay(l, way[1], way[2], way[3])
       PROVE CleanInv' /\ UnloadCleans'
  BY <1>10 DEF UnloadOverlay
<1>11. ASSUME NEW l \in Launchers, Kill(l) PROVE CleanInv' /\ UnloadCleans'
  BY <1>11 DEF Kill
<1>12. CASE CleanBegin
  BY <1>12 DEF CleanBegin
<1>13. CASE CleanCheckDevice
  BY <1>13 DEF CleanCheckDevice
<1>14. CASE CleanModule
  BY <1>14 DEF CleanModule, RmmodFails, OverlayRemovalFails, Rmmod, RmmodPossible,
     OverlayRemoved
<1>15. CASE CleanOverlays
  <2>1. Len(overlays) \in Nat /\ (Len(overlays) = 0 => overlays = <<>>)
    BY LenProperties, EmptySeq
  <2>2. UNCHANGED <<hardware, user, undisturbed, overlaysAtStart, module>> /\ cleaner =
       "overlays"
    BY <1>15 DEF CleanOverlays, OverlayRemoved, OverlayRemovalFails
  <2>3. CASE OverlayRemoved /\ cleaner' = AfterRemoval
    <3>1. Len(overlays') = Len(overlays) - 1 /\ Len(overlays) > 0 /\ (Len(overlays') = 0 =>
         overlays' = <<>>)
      BY <2>3, OneOverlayLess, EmptySeq
    <3>2. node' = FALSE
      BY <2>3 DEF OverlayRemoved
    <3> QED BY <2>1, <2>2, <2>3, <3>1, <3>2 DEF AfterRemoval, OverlayNames
  <2>4. CASE OverlayRemovalFails /\ cleaner' = "failed"
    BY <2>2, <2>4 DEF OverlayRemovalFails
  <2>5. CASE overlays = <<>> /\ UNCHANGED <<overlays, node>> /\ cleaner' = "cleaned"
    BY <2>2, <2>5
  <2> QED BY <1>15, <2>3, <2>4, <2>5 DEF CleanOverlays
<1>16. CASE NodeAppears
  BY <1>16 DEF NodeAppears
<1>17. CASE OtherUser
  BY <1>17 DEF OtherUser
<1>18. CASE UNCHANGED vars
  BY <1>18
<1> QED BY <1>1, <1>2, <1>3, <1>4, <1>5, <1>6, <1>7, <1>8, <1>9, <1>10, <1>11, <1>12, <1>13,
           <1>14, <1>15, <1>16, <1>17, <1>18, Steps DEF UnloadsModule, UnloadsOverlay

\* The initial states satisfy the invariant.
LEMMA InitInv == Init => IInv
<1> SUFFICES ASSUME Init PROVE IInv
  OBVIOUS
<1>1. <<>> \in Seq(Launchers) /\ Len(<<>>) = 0
  BY EmptyInSeq
<1>2. FlagTypes
  BY Zenon DEF Init, FlagTypes
<1>3. MachineTypes
  BY <1>1 DEF Init, MachineTypes, Users, CleanPoints
<1>4. LaunchTypes
  BY DEF Init, LaunchTypes, Points
<1>5. GuardsInv /\ EndedClean
  BY DEF Init, GuardsInv, GuardInv, EndedClean
<1>6. MachineInv /\ CleanInv /\ UnloadCleans
  BY DEF Init, MachineInv, CleanInv, UnloadCleans, Loaded
<1>7. AccountInv
  <2>1. Holders = {}
    BY DEF Init, Holders
  <2> QED BY <1>1, <2>1, FS_EmptySet DEF Init, AccountInv
<1> QED BY <1>2, <1>3, <1>4, <1>5, <1>6, <1>7 DEF IInv

\* In every state of every behaviour.
THEOREM Invariant == Spec => []IInv
<1>1. IInv /\ [Next]_vars => IInv'
  BY NextFlags, NextMachineTypes, NextLaunchTypes, NextGuards, NextMachine, NextAccount,
     NextClean
  DEF IInv
<1> QED BY <1>1, InitInv, PTL DEF Spec

-----------------------------------------------------------------------------
(* The properties. *)

\* Type correctness.
THEOREM TypeCorrect == Spec => []TypeOK
<1>1. IInv => TypeOK
  BY TypeParts DEF IInv
<1> QED BY <1>1, Invariant, PTL

\* Until somebody runs --unload, dtoverlay -r is called once for each overlay that
\* load_configured applied, and no sooner than serve() has returned.
THEOREM GuardsAccount == Spec => []OverlaysAccounted
<1>1. IInv => OverlaysAccounted
  <2> SUFFICES ASSUME IInv, unloads = 0 PROVE OverlaysAccounted
    BY DEF OverlaysAccounted
  <2>1. Len(overlays) = Cardinality(Holders)
    BY DEF IInv, AccountInv
  <2>2. ASSUME NEW l \in Launchers, pc[l] = "serving" PROVE overlays # <<>>
    BY <2>1, <2>2, HolderCounts DEF IInv, GuardsInv, GuardInv
  <2> QED BY <2>1, <2>2 DEF OverlaysAccounted
<1> QED BY <1>1, Invariant, PTL

\* A launcher that ends has unloaded what it loaded, unless the removals failed too.
THEOREM EndsClean == Spec => []EndedClean
<1>1. IInv => EndedClean
  BY DEF IInv
<1> QED BY <1>1, Invariant, PTL

\* An undisturbed --unload leaves nothing loaded, and a device in use its overlays.
THEOREM CleansUp == Spec => []UnloadCleans
<1>1. IInv => UnloadCleans
  BY DEF IInv
<1> QED BY <1>1, Invariant, PTL

\* No guard removes the module of another launcher.
THEOREM NobodyElsesModule == Spec => OnlyOwnModule
<1> DEFINE Own == \A l \in Launchers :
                    (unloads = 0 /\ Loaded /\ module' = NoOne /\ pc'[l] # pc[l]) => module = l
<1>1. ASSUME IInv, [Next]_vars PROVE Own
  <2> SUFFICES ASSUME NEW l \in Launchers, unloads = 0, Loaded, module' = NoOne, pc'[l] # pc[l]
               PROVE  module = l
    OBVIOUS
  <2>1. PICK m \in Launchers : pc' = [pc EXCEPT ![m] = pc'[m]] /\ UnloadsModule(m)
    <3> USE <1>1, LaunchersAssumption DEF IInv, LaunchTypes, Loaded, Goto
    <3>1. ASSUME NEW m \in Launchers, CheckModule(m) \/ CheckOverlay(m) \/ CheckFails(m) \/
         ApplyOverlay(m)
          PROVE  FALSE
      BY <3>1 DEF CheckModule, CheckOverlay, CheckFails, ApplyOverlay, machineVars, Fault
    <3>2. ASSUME NEW m \in Launchers, InsertModule(m) \/ AwaitNode(m)
                                 \/ OpenDevice(m) \/ ServeReturns(m) \/ Kill(m)
          PROVE  FALSE
      BY <3>2 DEF InsertModule, AwaitNode, OpenDevice, ServeReturns, Kill, machineVars, Fault
    <3>3. ASSUME NEW m \in Launchers, UnloadsOverlay(m) PROVE FALSE
      BY <3>3 DEF UnloadsOverlay, UnloadOverlay, OverlayRemoved, OverlayRemovalFails,
         machineVars, Fault
    <3>4. ASSUME CleanBegin \/ CleanCheckDevice \/ CleanModule \/ CleanOverlays PROVE FALSE
      BY <3>4 DEF CleanBegin, CleanCheckDevice, CleanModule, CleanOverlays, Cleaning, launchVars
    <3>5. ASSUME NodeAppears \/ OtherUser \/ UNCHANGED vars PROVE FALSE
      BY <3>5 DEF NodeAppears, OtherUser, vars, launchVars
    <3>6. PICK m \in Launchers : UnloadsModule(m)
      BY <3>1, <3>2, <3>3, <3>4, <3>5, Steps
    <3>7. pc' = [pc EXCEPT ![m] = pc'[m]]
      BY <3>6 DEF UnloadsModule, UnloadModule
    <3> QED BY <3>6, <3>7
  <2>2. m = l
    BY <1>1, <2>1 DEF IInv, LaunchTypes
  <2>3. moduleLoaded[m]
    BY <1>1, <2>1 DEF UnloadsModule, UnloadModule, RmmodFails, Fault, machineVars, Loaded
  <2> QED BY <1>1, <2>2, <2>3 DEF IInv, AccountInv
<1>2. IInv /\ [Next]_vars => [Own]_vars
  BY <1>1
<1> QED BY <1>2, Invariant, PTL DEF Spec, OnlyOwnModule

=============================================================================
