---------------------- MODULE UccSoftwareUpdate_proofs ----------------------
(***************************************************************************)
(* For any packages and any number of faults and changes: the state stays  *)
(* in its types, no package is changed in the overlay only, and the client *)
(* is switched to writable mode only for work.                             *)
(***************************************************************************)
EXTENDS UccSoftwareUpdate, TLAPS

IInv == TypeOK /\ PackagesPersist

(* A cold client satisfies the invariant.                                  *)
LEMMA InitIInv == Init => IInv
<1> SUFFICES ASSUME Init PROVE IInv
  OBVIOUS
<1>1. image \in [Pkgs -> Statuses]
  BY StatusAssumption DEF Init, Statuses
<1>2. params \in [mount : {"none", "ro", "rw"}, swinstreset : BOOLEAN]
  <2>1. PICK m \in {"none", "ro", "rw"}, b \in BOOLEAN :
           params = [mount |-> m, swinstreset |-> b]
    BY ZenonT(30) DEF Init
  <2> QED
    BY <2>1
<1>3. client \in [thin : BOOLEAN, mount : {"ro", "rw"}]
  <2>1. PICK m \in {"ro", "rw"}, b \in BOOLEAN :
           client = [thin |-> b, mount |-> m]
    BY ZenonT(30) DEF Init
  <2> QED
    BY <2>1
<1>4. /\ policy \in Policies /\ cache = policy /\ view = image
      /\ root = "overlay" /\ pc = "off" /\ force \in BOOLEAN /\ forced \in BOOLEAN
      /\ faults = 0 /\ admins = 0
  BY ZenonT(30) DEF Init
<1> QED
  BY <1>1, <1>2, <1>3, <1>4, BoundAssumption DEF IInv, TypeOK, PackagesPersist, PCs

(* A failed call is counted within its bound, one that works is not.       *)
LEMMA FaultType ==
    ASSUME faults \in 0 .. MaxFault, Fault \/ NoFault
    PROVE  faults' \in 0 .. MaxFault
  BY BoundAssumption DEF Fault, NoFault

(* Storing a boot parameter, or failing to, keeps the parameters' type.    *)
LEMMA ParamType ==
    ASSUME TypeOK,
           \/ boot_option("mount", "rw") \/ boot_option("swinstreset", TRUE)
           \/ boot_option("swinstreset", FALSE) \/ boot_option("mount", "none")
    PROVE  /\ params' \in [mount : {"none", "ro", "rw"}, swinstreset : BOOLEAN]
           /\ faults' \in 0 .. MaxFault
  BY FaultType DEF TypeOK, boot_option, Fault, NoFault

(* apt-get in a writable image leaves the running system and the image     *)
(* with the same packages.                                                 *)
LEMMA AptType ==
    ASSUME IInv, root = "rw", NEW N, NEW s \in Statuses, apt_get(N, s)
    PROVE  /\ view' \in [Pkgs -> Statuses] /\ image' = view'
           /\ faults' \in 0 .. MaxFault
<1>1. faults' \in 0 .. MaxFault
  BY FaultType DEF apt_get, IInv, TypeOK
<1>2. PICK S : Store([p \in Pkgs |-> IF p \in S THEN s ELSE view[p]])
  BY DEF apt_get
<1> QED
  BY <1>1, <1>2 DEF Store, IInv, TypeOK

(* Each of the three parts of the script preserves the invariant: it works *)
(* on packages only when the root is writable.                             *)
LEMMA PartIInv ==
    ASSUME IInv, NEW N, NEW C, NEW s \in Statuses,
           NEW next \in PCs, Part(N, C, s, next)
    PROVE  IInv'
<1>1. CASE N = {} \/ root = "overlay"
  <2>1. /\ UNCHANGED <<image, view, faults>> /\ pc' \in PCs
    BY <1>1 DEF Part, IInv, TypeOK, PCs
  <2> QED
    BY <2>1 DEF Part, ldap, IInv, TypeOK, PackagesPersist
<1>2. CASE ~(N = {} \/ root = "overlay")
  <2>1. root = "rw" /\ apt_get(C, s) /\ pc' = next
    BY <1>2 DEF Part, IInv, TypeOK
  <2>2. /\ view' \in [Pkgs -> Statuses] /\ image' = view'
        /\ faults' \in 0 .. MaxFault
    BY <2>1, AptType
  <2> QED
    BY <2>1, <2>2 DEF Part, ldap, IInv, TypeOK, PackagesPersist
<1> QED
  BY <1>1, <1>2

(* Every step of the script, the boot, the user and the administrator      *)
(* preserves the invariant.                                                *)
LEMMA NextIInv == IInv /\ [Next]_vars => IInv'
<1> SUFFICES ASSUME IInv, [Next]_vars PROVE IInv'
  OBVIOUS
<1>1. CASE boot
  <2>1. faults' \in 0 .. MaxFault
    BY <1>1, FaultType DEF boot, fetch_system_policies, IInv, TypeOK
  <2>a. NoPolicy \in Policies
    BY DEF NoPolicy, Policies
  <2>2. cache' \in Policies
    BY <1>1, <2>a DEF boot, fetch_system_policies, IInv, TypeOK
  <2>3. root' \in {"overlay", "rw"}
    BY <1>1 DEF boot
  <2> QED
    BY <1>1, <2>1, <2>2, <2>3 DEF boot, ldap, IInv, TypeOK, PackagesPersist, PCs
<1>2. CASE dist_upgrade
  BY <1>2, PartIInv DEF dist_upgrade, Statuses, PCs
<1>3. CASE remove
  BY <1>3, PartIInv DEF remove, Statuses, PCs
<1>4. CASE install
  BY <1>4, PartIInv DEF install, Statuses, PCs
<1>5. CASE set_mount \/ delete_swinstreset
  BY <1>5, ParamType DEF set_mount, delete_swinstreset, Script, Running, disk,
                         IInv, TypeOK, PackagesPersist, PCs
<1>6. CASE set_swinstreset \/ delete_mount
  BY <1>6, ParamType DEF set_swinstreset, delete_mount, Script, Reboot, disk,
                         IInv, TypeOK, PackagesPersist, PCs
<1>7. CASE reset
  <2>1. faults' \in 0 .. MaxFault
    BY <1>7, FaultType DEF reset, IInv, TypeOK
  <2>2. pc' \in PCs
    BY <1>7 DEF reset, PCs
  <2> QED
    BY <1>7, <2>1, <2>2 DEF reset, ldap, disk, IInv, TypeOK, PackagesPersist
<1>8. CASE power_off
  <2>1. faults' \in 0 .. MaxFault
    BY <1>8, FaultType DEF power_off, IInv, TypeOK
  <2> QED
    BY <1>8, <2>1 DEF power_off, Reboot, ldap, disk, IInv, TypeOK,
                      PackagesPersist, PCs
<1>9. ASSUME NEW p, Admin(p), p \in PCs
      PROVE  admins' \in 0 .. MaxAdmin /\ pc' \in PCs
  BY <1>9, BoundAssumption DEF Admin, IInv, TypeOK
<1>10. ASSUME NEW p \in Pkgs, publish(p) PROVE IInv'
  <2>1. admins' \in 0 .. MaxAdmin /\ pc' \in PCs
    BY <1>10, <1>9 DEF publish, IInv, TypeOK
  <2>2. image' \in [Pkgs -> Statuses] /\ view' = image'
    BY <1>10 DEF publish, IInv, TypeOK, PackagesPersist, Statuses
  <2> QED
    BY <1>10, <2>1, <2>2 DEF publish, Admin, IInv, TypeOK, PackagesPersist
<1>11. CASE set_policy
  <2>1. admins' \in 0 .. MaxAdmin /\ pc' \in PCs
    BY <1>11, <1>9 DEF set_policy, IInv, TypeOK
  <2> QED
    BY <1>11, <2>1 DEF set_policy, Admin, IInv, TypeOK, PackagesPersist
<1>12. CASE force_rw_boot \/ force_update
  <2>1. admins' \in 0 .. MaxAdmin /\ pc' \in PCs
    BY <1>12, <1>9 DEF force_rw_boot, force_update, PCs
  <2>2. force' \in BOOLEAN /\ forced' \in BOOLEAN
    BY <1>12 DEF force_rw_boot, force_update, IInv, TypeOK
  <2> QED
    BY <1>12, <2>1, <2>2 DEF force_rw_boot, force_update, Admin, IInv, TypeOK,
                             PackagesPersist
<1>13. CASE UNCHANGED vars
  BY <1>13 DEF vars, IInv, TypeOK, PackagesPersist
<1> QED
  BY <1>1, <1>2, <1>3, <1>4, <1>5, <1>6, <1>7, <1>8, <1>10, <1>11, <1>12, <1>13
  DEF Next, Step

(* The invariant holds in every reachable state.                           *)
LEMMA Invariance == Spec => []IInv
  BY InitIInv, NextIInv, PTL DEF Spec

(* The state of the update protocol stays in its types.                    *)
THEOREM TypeCorrect == Spec => []TypeOK
<1>1. IInv => TypeOK
  BY DEF IInv
<1> QED
  BY <1>1, Invariance, PTL

(* univention-ucc-software-update never changes a package in the overlay   *)
(* only, whichever calls fail and wherever the power is cut.               *)
THEOREM WorkPersists == Spec => []PackagesPersist
<1>1. IInv => PackagesPersist
  BY DEF IInv
<1> QED
  BY <1>1, Invariance, PTL

(* Only a part that finds work below the overlay goes to set_mount.        *)
LEMMA PartSwitches ==
    ASSUME NEW N, NEW C, NEW s, NEW next \in PCs \ {"set_mount"}, Part(N, C, s, next),
           pc' = "set_mount"
    PROVE  N # {}
  BY DEF Part

(* The script asks for a writable boot only if it found work in the cached *)
(* settings, whatever fails and whatever the administrator changes; a      *)
(* package with the status not-installed is the one exception.             *)
THEOREM OnlyForWork == Spec => SwitchedForWork
<1> DEFINE Work ==
        \/ (cache.update \/ forced) /\ Outdated # {}
        \/ \E p \in cache.remove : view[p] \in {"installed", "outdated", "not-installed"}
        \/ \E p \in cache.install : view[p] # "installed"
<1>1. ASSUME [Next]_vars, pc' = "set_mount", pc # "set_mount" PROVE Work
  <2>1. CASE dist_upgrade
    BY <1>1, <2>1, PartSwitches DEF dist_upgrade, PCs
  <2>2. CASE remove
    <3>1. {p \in cache.remove : grep_installed(p)} # {}
      BY <1>1, <2>2, PartSwitches DEF remove, PCs
    <3> QED
      BY <3>1 DEF grep_installed
  <2>3. CASE install
    <3>1. {p \in cache.install : view[p] # "installed"} # {}
      BY <1>1, <2>3, PartSwitches DEF install, PCs
    <3> QED
      BY <3>1
  <2>4. CASE \/ boot \/ set_mount \/ set_swinstreset \/ reset \/ delete_swinstreset
             \/ delete_mount \/ power_off \/ force_rw_boot \/ force_update
    BY <1>1, <2>4 DEF boot, set_mount, set_swinstreset, reset, delete_swinstreset, delete_mount,
                      power_off, force_rw_boot, force_update, Script, Admin
  <2>5. CASE (\E p \in Pkgs : publish(p)) \/ set_policy \/ UNCHANGED vars
    BY <1>1, <2>5 DEF publish, set_policy, Admin, vars
  <2> QED
    BY <1>1, <2>1, <2>2, <2>3, <2>4, <2>5 DEF Next, Step
<1>2. [Next]_vars => [pc' = "set_mount" /\ pc # "set_mount" => Work]_vars
  BY <1>1
<1> QED
  BY <1>2, PTL DEF Spec, SwitchedForWork
=============================================================================
