------------------------- MODULE UccSoftwareUpdate -------------------------
(***************************************************************************)
(* univention-ucc-software-update: package updates on a client whose image *)
(* may be mounted read-only below an overlay in memory.  A run that finds  *)
(* work while the overlay is active stores two boot parameters in LDAP     *)
(* (mount=rw and swinstreset=true) and reboots; the next boot mounts the   *)
(* image writable, the run after it does the work, deletes the parameters  *)
(* and reboots again.                                                      *)
(*                                                                         *)
(* The script ignores the exit status of univention-ucc-boot-option and of *)
(* apt-get, so every call of them may fail here and the script goes on.    *)
(* Packages are abstract; "outdated" is installed with a newer version in  *)
(* the repository.  The administrator's lists never name the same package  *)
(* twice.                                                                  *)
(***************************************************************************)
EXTENDS Naturals, FiniteSets

CONSTANTS
    Pkgs,        \* packages
    Initially,   \* states a package may be in at first
    MaxFault,    \* bound on failed calls and power cuts
    MaxAdmin     \* bound on the administrator's changes

ASSUME BoundAssumption == MaxFault \in Nat /\ MaxAdmin \in Nat
ASSUME StatusAssumption ==
    Initially \subseteq
        {"unknown", "not-installed", "config-files", "installed", "outdated"}

VARIABLES
    params,   \* LDAP: boot parameters mount and swinstreset
    policy,   \* LDAP: software settings
    cache,    \* /var/cache/ucc/client-policy-*: the settings last fetched
    client,   \* UCR: ucc/thinclientoverlayfs and ucc/boot/mount
    force,    \* /ucc_root/force_boot_rw exists
    image,    \* packages in the image on disk
    view,     \* packages as the running system sees them
    root,     \* how the running system's root is mounted
    forced,   \* the script was started with --force
    pc, faults, admins

ldap == <<params, policy>>
disk == <<cache, force, image>>
vars == <<params, policy, cache, client, force, image, view, root, forced, pc,
          faults, admins>>

Statuses == {"unknown", "not-installed", "config-files", "installed", "outdated"}

Policies ==
    {p \in [update : BOOLEAN, remove : SUBSET Pkgs, install : SUBSET Pkgs] :
        p.remove \cap p.install = {}}

NoPolicy == [update |-> FALSE, remove |-> {}, install |-> {}]

PCs == {"off", "upgrade", "remove", "install", "reset", "set_mount",
        "set_swinstreset", "delete_swinstreset", "delete_mount", "idle"}

(* A thin client, a client with a writable image, and a thin client whose  *)
(* overlay the administrator disabled with mount=rw.                       *)
Init ==
    /\ \/ /\ client \in {[thin |-> TRUE, mount |-> "ro"],
                         [thin |-> FALSE, mount |-> "rw"]}
          /\ params = [mount |-> "none", swinstreset |-> FALSE]
       \/ /\ client = [thin |-> FALSE, mount |-> "ro"]
          /\ params = [mount |-> "rw", swinstreset |-> FALSE]
    /\ policy \in Policies /\ cache = policy
    /\ image \in [Pkgs -> Initially] /\ view = image
    /\ root = "overlay" /\ pc = "off"
    /\ force = FALSE /\ forced = FALSE /\ faults = 0 /\ admins = 0

(* A call either works or fails; failures are counted.                     *)
Fault == faults < MaxFault /\ faults' = faults + 1
NoFault == UNCHANGED faults

-----------------------------------------------------------------------------
(* mountroot: univention-ucc-fetch-system-policies refreshes the cache if  *)
(* a server answers and leaves it empty if the answer breaks off.          *)
fetch_system_policies ==
    \/ NoFault /\ cache' = policy
    \/ Fault /\ cache' \in {cache, NoPolicy}

(* get_boot_mount_option.sh: the local file overrules LDAP, LDAP (if it    *)
(* can be read) overrules UCR.                                             *)
get_boot_mount_option(option) ==
    IF force THEN "rw" ELSE IF option # "none" THEN option ELSE client.mount

boot ==
    /\ pc = "off" /\ pc' = "upgrade"
    /\ \/ fetch_system_policies /\ root' =
            IF get_boot_mount_option(params.mount) = "ro" THEN "overlay" ELSE "rw"
       \/ Fault /\ cache' = cache /\ root' =
            IF get_boot_mount_option("none") = "ro" THEN "overlay" ELSE "rw"
    /\ view' = image /\ forced' = FALSE
    /\ UNCHANGED <<ldap, client, force, image, admins>>

(* What apt writes is in the image if that is mounted writable, and        *)
(* otherwise in memory only.                                               *)
Store(v) == view' = v /\ image' = IF root = "rw" THEN v ELSE image

(* apt-get on a set of packages: all of them change, or, if it fails, some.*)
apt_get(needed, status) ==
    \/ NoFault /\ Store([p \in Pkgs |-> IF p \in needed THEN status ELSE view[p]])
    \/ /\ Fault
       /\ \E done \in SUBSET needed :
             Store([p \in Pkgs |-> IF p \in done THEN status ELSE view[p]])

(* One part of the script: nothing to do; work but an overlay; or the work.*)
(* Removing changes only what is there, whatever the test had said.        *)
Part(needed, changed, status, next) ==
    /\ \/ needed = {} /\ pc' = next /\ UNCHANGED <<image, view, faults>>
       \/ /\ needed # {} /\ root = "overlay" /\ pc' = "set_mount"
          /\ UNCHANGED <<image, view, faults>>
       \/ /\ needed # {} /\ root # "overlay" /\ pc' = next
          /\ apt_get(changed, status)
    /\ UNCHANGED <<ldap, client, cache, force, root, forced, admins>>

Outdated == {p \in Pkgs : view[p] = "outdated"}

dist_upgrade ==
    /\ pc = "upgrade"
    /\ LET new == IF cache.update \/ forced THEN Outdated ELSE {}
       IN  Part(new, new, "installed", "remove")

(* dpkg-query prints a status for every package dpkg knows, and grep finds *)
(* "installed" in "not-installed" too.                                     *)
grep_installed(p) == view[p] \in {"installed", "outdated", "not-installed"}

(* Mutant: the status is not asked for.                                    *)
remove_unasked ==
    /\ pc = "remove"
    /\ LET rmneeded == cache.remove
       IN  Part(rmneeded,
                {p \in rmneeded : view[p] # "not-installed"},
                "config-files", "install")

remove ==
    /\ pc = "remove"
    /\ LET rmneeded == {p \in cache.remove : grep_installed(p)}
       IN  Part(rmneeded,
                {p \in rmneeded : view[p] # "not-installed"},
                "config-files", "install")

(* Mutant: the test for the overlay is missing.                            *)
install_no_reboot ==
    /\ pc = "install"
    /\ LET instneeded == {p \in cache.install : view[p] # "installed"}
       IN  apt_get(instneeded, "installed")
    /\ pc' = "reset"
    /\ UNCHANGED <<ldap, client, cache, force, root, forced, admins>>

install ==
    /\ pc = "install"
    /\ LET instneeded == {p \in cache.install : view[p] # "installed"}
       IN  Part(instneeded, instneeded, "installed", "reset")

-----------------------------------------------------------------------------
(* univention-ucc-boot-option --write: stores or deletes one parameter, or *)
(* does nothing if there is no machine connection.                         *)
boot_option(option, value) ==
    \/ NoFault /\ params' = [params EXCEPT ![option] = value]
    \/ Fault /\ UNCHANGED params

Script(from, to) ==
    /\ pc = from /\ pc' = to
    /\ UNCHANGED <<policy, client, disk, admins>>

Running == UNCHANGED <<view, root, forced>>

(* sync; reboot: what was only in memory is gone.                          *)
Reboot == view' = image /\ root' = "overlay" /\ forced' = FALSE

set_mount ==
    Script("set_mount", "set_swinstreset") /\ boot_option("mount", "rw") /\ Running

set_swinstreset ==
    Script("set_swinstreset", "off") /\ boot_option("swinstreset", TRUE) /\ Reboot

(* Mutant: the parameters are never deleted.                               *)
reset_never ==
    /\ pc = "reset" /\ pc' = "idle"
    /\ UNCHANGED <<ldap, client, disk, view, root, forced, faults, admins>>

(* The parameters are deleted if the root is writable, the client is a     *)
(* thin client with overlay and swinstreset can be read and is true.       *)
reset ==
    /\ pc = "reset"
    /\ LET due == root # "overlay" /\ client.thin
       IN  \/ due /\ params.swinstreset /\ pc' = "delete_swinstreset" /\ NoFault
           \/ ~(due /\ params.swinstreset) /\ pc' = "idle" /\ NoFault
           \/ due /\ params.swinstreset /\ pc' = "idle" /\ Fault
    /\ UNCHANGED <<ldap, client, disk, view, root, forced, admins>>

delete_swinstreset ==
    /\ Script("delete_swinstreset", "delete_mount")
    /\ boot_option("swinstreset", FALSE) /\ Running

(* Mutant: the value is removed but not the parameter.                     *)
delete_mount_empty ==
    Script("delete_mount", "off") /\ boot_option("mount", "") /\ Reboot

delete_mount ==
    Script("delete_mount", "off") /\ boot_option("mount", "none") /\ Reboot

-----------------------------------------------------------------------------
(* The user switches the client off when the script has finished (free) or *)
(* while it runs (a fault).                                                *)
power_off ==
    /\ pc # "off" /\ pc' = "off"
    /\ IF pc = "idle" THEN NoFault ELSE Fault
    /\ Reboot /\ UNCHANGED <<ldap, client, disk, admins>>

Admin(p) ==
    /\ admins < MaxAdmin /\ admins' = admins + 1
    /\ pc' = p /\ UNCHANGED <<params, client, cache, root, faults>>

(* A new version appears in the repository.                                *)
publish(p) ==
    /\ Admin(pc) /\ UNCHANGED <<policy, force, forced>>
    /\ "installed" \in {image[p], view[p]}
    /\ image' = [image EXCEPT ![p] = IF @ = "installed" THEN "outdated" ELSE @]
    /\ view' = [view EXCEPT ![p] = IF @ = "installed" THEN "outdated" ELSE @]

set_policy ==
    Admin(pc) /\ policy' \in Policies \ {policy} /\ UNCHANGED <<force, forced, image, view>>

(* univention-ucc-force-rw-boot set-rw and unset-rw, in a running client.  *)
force_rw_boot ==
    /\ pc = "idle" /\ Admin("idle") /\ force' = ~force
    /\ UNCHANGED <<policy, forced, image, view>>

(* univention-ucc-software-update --force, in a running client.            *)
force_update ==
    /\ pc = "idle" /\ Admin("upgrade") /\ forced' = TRUE
    /\ UNCHANGED <<policy, force, image, view>>

Step ==
    \/ boot \/ dist_upgrade \/ remove \/ install \/ set_mount \/ set_swinstreset
    \/ reset \/ delete_swinstreset \/ delete_mount

Next ==
    \/ Step \/ power_off \/ (\E p \in Pkgs : publish(p))
    \/ set_policy \/ force_rw_boot \/ force_update

Spec == Init /\ [][Next]_vars

(* The service runs on every boot and the script does not wait for anyone; *)
(* a client is switched off and on again every now and then.               *)
FairSpec == Spec /\ WF_vars(Step) /\ WF_vars(power_off /\ pc = "idle")

-----------------------------------------------------------------------------
(* Type correctness.                                                       *)
TypeOK ==
    /\ params \in [mount : {"none", "ro", "rw"}, swinstreset : BOOLEAN]
    /\ policy \in Policies /\ cache \in Policies
    /\ client \in [thin : BOOLEAN, mount : {"ro", "rw"}]
    /\ force \in BOOLEAN /\ forced \in BOOLEAN
    /\ image \in [Pkgs -> Statuses] /\ view \in [Pkgs -> Statuses]
    /\ root \in {"overlay", "rw"} /\ pc \in PCs
    /\ faults \in 0 .. MaxFault /\ admins \in 0 .. MaxAdmin

(* No package is ever changed in the overlay only, to be forgotten at the  *)
(* next boot: check_for_rw_mount_and_reboot comes before each of the three *)
(* kinds of work.                                                          *)
PackagesPersist == view = image

(* What the settings ask for is done in the image.                         *)
Settled ==
    /\ policy.update => \A p \in Pkgs : image[p] # "outdated"
    /\ \A p \in policy.remove : image[p] \notin {"installed", "outdated"}
    /\ \A p \in policy.install : image[p] = "installed"

(* Whatever calls fail and whenever the power is cut, once that and the    *)
(* administrator's changes end the client gets into the state the settings *)
(* ask for, by way of a writable boot if it has an overlay.                *)
SettingsApplied == admins = MaxAdmin ~> Settled

(* The second restart: a thin client that was started writable for an      *)
(* update returns to its overlay, unless it is forced to rw - as long as   *)
(* no call fails and the power is not cut.                                 *)
BackIfNoFault ==
    client.thin /\ root = "rw"
        ~> force \/ faults > 0 \/ (root = "overlay" /\ pc # "off")

(* A thin client is restarted in writable mode only if there is something  *)
(* to upgrade, remove or install - or a package of the remove list has the *)
(* status not-installed, in which grep finds "installed".                  *)
SwitchedForWork ==
    [][pc' = "set_mount" /\ pc # "set_mount" =>
        \/ (cache.update \/ forced) /\ Outdated # {}
        \/ \E p \in cache.remove : view[p] \in {"installed", "outdated", "not-installed"}
        \/ \E p \in cache.install : view[p] # "installed"]_vars

(* An update ends: what the settings ask for is done, and the client       *)
(* returns to its overlay.                                                 *)
UpdateEnds ==
    /\ SettingsApplied /\ BackIfNoFault
=============================================================================
