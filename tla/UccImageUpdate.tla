--------------------------- MODULE UccImageUpdate ---------------------------
(***************************************************************************)
(* The boot of one UCC client by the initramfs script                      *)
(*    univention-ucc-initramfs/initramfs-tools/scripts/ucc                  *)
(* as far as it installs, replaces and records the local image: mountroot, *)
(* ucc_installation, ucc_update, _check_and_copy_image, the two syncs with  *)
(* the persistent storage (univention-ucc-sync-persistent-files), the join *)
(* and the reset of the boot variant.                                      *)
(*                                                                         *)
(* The root partition survives a power failure, everything else does not:  *)
(* Crash may strike between any two steps.  An image file is the version   *)
(* it was published as and the system data (join state, settings) that was *)
(* written into it; data is abstracted to a number, Pristine for an image  *)
(* as delivered, and a fresh number for every join or change of settings.  *)
(***************************************************************************)
EXTENDS Integers, Sequences, FiniteSets

CONSTANTS
    Images,        \* names of image files (univentionCorporateClientBootImage)
    Servers,       \* image servers
    ServerList,    \* the order generate_upgrade_script tries them in
    ImgSize,       \* size of an image file, in units of the 10 MB buffer
    Capacity,      \* size of the root partition in the same unit
    PublishAnytime, \* images are replaced even while a client copies one
    MaxPublish,    \* bound: images published by the administrator
    MaxAssign,     \* bound: changes of the client's settings in the LDAP
    MaxChange,     \* bound: changes of system data on the client
    MaxFault       \* bound: power failures and failing sync scripts

ASSUME SizeAssumption == ImgSize \in Nat \ {0} /\ Capacity \in Nat
ASSUME PublishAssumption == PublishAnytime \in BOOLEAN
ASSUME ServerAssumption == ServerList \in Seq(Servers)
ASSUME BoundAssumption ==
    /\ MaxPublish \in Nat /\ MaxAssign \in Nat /\ MaxFault \in Nat
    /\ MaxChange \in Nat \ {0}

None == "none"            \* no such file, no image
ASSUME ImageAssumption == None \notin Images

Pristine == 0             \* the system data of an image as delivered
Partial  == -1            \* a copy of system data that was interrupted
NoData   == -2            \* no persistent-files directory
Buffer   == 1             \* the 10 MB of _check_free_space

VARIABLES
    server,        \* server[s][i]: version of image i on server s, 0 if absent
    assigned,      \* univentionCorporateClientBootImage
    variant,       \* univentionCorporateClientBootVariant
    repartition,   \* univentionCorporateClientBootRepartitioning
    currentImage,  \* univentionCorporateClientCurrentBootImage
    root_device,   \* the disk carries a partition with ucc_root_device
    files,         \* image files on the root partition
    local_image,   \* content of the file local_image
    local_md5,     \* content of local_image.md5, 0 if there is none
    marker,        \* ucc_sync_back_from_persistent exists
    persistent,    \* system data in persistent-files/persistent-ucr.conf
    save,          \* system data in persistent-files.SAVE
    orphans,       \* temporary files an interrupted rsync left behind
    pc,            \* what the script does next
    pxe,           \* booted by PXE (ROOT=/dev/nfs), else from the local disk
    UCC,           \* the mode of this boot, from repartition= and ucc=
    IMAGE,         \* image= of this boot
    todo,          \* servers still to try in this boot
    cur,           \* server whose share is mounted on boot_medium
    updated,       \* /tmp/updated exists
    mounted,       \* image mounted on /root
    latest,        \* history: newest system data this client ever held
    removed,       \* history: system data of the image file removed last
    published, assigns, faults   \* counters for the bounds

ldap  == <<assigned, variant, repartition, currentImage>>
disk  == <<root_device, files, local_image, local_md5, marker, persistent,
           save, orphans>>
boot  == <<pc, pxe, UCC, IMAGE, todo, cur, updated, mounted>>
hist  == <<latest, removed>>
count == <<published, assigns, faults>>
vars  == <<server, ldap, disk, boot, hist, count>>

NoImage == [ver |-> 0, data |-> Pristine]
Present(i) == i \in Images /\ files[i].ver # 0

Versions == 0 .. MaxPublish + 1
MaxData  == MaxChange + MaxFault + 1   \* a client joins again only after a fault
Data     == NoData .. MaxData
PCs == {"off", "install", "mkfs", "update", "check", "syncTo", "rename", "makedirs",
        "copyTo", "touch", "space", "rm", "rsync", "echo", "md5", "syncFrom",
        "copyFrom", "rmMarker", "mount", "rollout", "setVariant",
        "setCurrent", "local", "run"}

(* A client that was installed with image i, joined and shut down, or a new *)
(* one with an empty disk that is to be installed.                         *)
Init ==
    /\ \E i \in Images, installed \in BOOLEAN :
          /\ server = [s \in Servers |->
                         [j \in Images |-> IF j = i THEN 1 ELSE 0]]
          /\ assigned = i
          /\ root_device = installed
          /\ variant = IF installed THEN "none" ELSE "rollout"
          /\ currentImage = (IF installed THEN i ELSE None)
          /\ local_image = (IF installed THEN i ELSE None)
          /\ local_md5 = (IF installed THEN 1 ELSE 0)
          /\ latest = (IF installed THEN 1 ELSE Pristine)
          /\ files = [j \in Images |->
                        IF j = i /\ installed
                        THEN [ver |-> 1, data |-> 1] ELSE NoImage]
    /\ repartition = FALSE /\ marker = FALSE
    /\ persistent = NoData /\ save = NoData /\ orphans = 0
    /\ pc = "off" /\ pxe = FALSE /\ UCC = "none" /\ IMAGE = None
    /\ todo = <<>> /\ cur = None /\ updated = FALSE /\ mounted = None
    /\ removed = Pristine
    /\ published = 0 /\ assigns = 0 /\ faults = 0

-----------------------------------------------------------------------------
(* The administrator.  Publishing gives image i on server s a fresh        *)
(* version; the servers of a domain need not be in step.                   *)

MayPublish == PublishAnytime \/ pc \notin {"rsync", "echo", "md5"}

Publish(s, i) ==
    /\ MayPublish /\ published < MaxPublish
    /\ server' = [server EXCEPT ![s][i] = published + 2]
    /\ published' = published + 1
    /\ UNCHANGED <<ldap, disk, boot, hist, assigns, faults>>

(* A server that lags behind fetches the newer version from another one.   *)
Replicate(s, t, i) ==
    /\ MayPublish /\ server[s][i] > server[t][i]
    /\ server' = [server EXCEPT ![t][i] = server[s][i]]
    /\ UNCHANGED <<ldap, disk, boot, hist, count>>

Assign(i, v, r) ==
    /\ assigns < MaxAssign
    /\ assigns' = assigns + 1
    /\ assigned' = i /\ variant' = v /\ repartition' = r
    /\ UNCHANGED <<server, currentImage, disk, boot, hist, published, faults>>

-----------------------------------------------------------------------------
(* Booting: mountroot up to the choice of the boot mode.                   *)

Goto(l) == pc' = l /\ UNCHANGED <<pxe, UCC, IMAGE, todo, cur, updated, mounted>>

(* The machine restarts: what the script kept in memory is gone.           *)
PowerOff ==
    /\ pc' = "off" /\ pxe' = FALSE /\ UCC' = "none" /\ IMAGE' = None
    /\ todo' = <<>> /\ cur' = None /\ updated' = FALSE /\ mounted' = None

failure == PowerOff

(* The mode selection at the end of mountroot: repartition=y goes first.   *)
Mode(ucc, repart) == IF repart THEN "install" ELSE ucc

(* Mutant: the local mode is not the default of the selection.             *)
Start_no_default(mode) == IF mode = "rollout" THEN "update" ELSE mode

Start(mode) ==
    CASE mode = "install" -> "install"
      [] mode = "rollout" -> "update"
      [] OTHER            -> "local"

(* PXE: the parameters are those of the LDAP object (the server's PXE      *)
(* configuration), nfsroot is one of the servers.                          *)
BootPXE(s) ==
    /\ pc = "off"
    /\ pxe' = TRUE /\ IMAGE' = assigned /\ todo' = <<s>>
    /\ UCC' = Mode(variant, repartition)
    /\ pc'  = Start(UCC')
    /\ cur' = None /\ updated' = FALSE /\ mounted' = None
    /\ UNCHANGED <<server, ldap, disk, hist, count>>

IsJoined(d) == d > Pristine \/ d = Partial
NotJoined(d) == d = Pristine \/ d = Partial

(* Local boot: only a mounted and joined image can read the boot parameters *)
(* from the LDAP (ldapOk) and generate the upgrade script.                 *)
BootLocal(ldapOk) ==
    /\ pc = "off" /\ root_device
    /\ ldapOk => Present(local_image) /\ IsJoined(files[local_image].data)
    /\ pxe' = FALSE
    /\ UCC'   = IF ldapOk THEN Mode(variant, repartition) ELSE "none"
    /\ pc'    = Start(UCC')
    /\ IMAGE' = IF ldapOk THEN assigned ELSE None
    /\ todo'  = IF ldapOk THEN ServerList ELSE <<>>
    /\ cur' = None /\ updated' = FALSE /\ mounted' = None
    /\ UNCHANGED <<server, ldap, disk, hist, count>>


-----------------------------------------------------------------------------
(* ucc_installation: the user confirms and the disk is partitioned, or the *)
(* boot fails.  A new file system is empty.                                *)

partition ==
    /\ pc = "install"
    /\ root_device' = FALSE
    /\ files' = [i \in Images |-> NoImage]
    /\ local_image' = None /\ local_md5' = 0 /\ marker' = FALSE
    /\ persistent' = NoData /\ save' = NoData /\ orphans' = 0
    /\ latest' = Pristine /\ removed' = Pristine
    /\ Goto("mkfs")
    /\ UNCHANGED <<server, ldap, count>>

mark_root_device ==
    /\ pc = "mkfs"
    /\ root_device' = TRUE
    /\ Goto("update")
    /\ UNCHANGED <<server, ldap, files, local_image, local_md5, marker,
                   persistent, save, orphans, hist, count>>

partition_aborted ==
    /\ pc = "install" /\ failure
    /\ UNCHANGED <<server, ldap, disk, hist, count>>

(* ucc_update: without a local root device it turns into an installation.  *)
ucc_update_install ==
    /\ pc = "update" /\ ~root_device
    /\ Goto("install")
    /\ UNCHANGED <<server, ldap, disk, hist, count>>

(* Mount the next server's share (_mount_local_boot_device, or nfs_mount   *)
(* of the upgrade script); when there is none left go on to _mount_image.  *)
mount_server(reachable) ==
    /\ pc = "update" /\ root_device /\ todo # <<>>
    /\ todo' = Tail(todo) /\ cur' = Head(todo)
    /\ pc' = IF reachable THEN "check" ELSE "update"
    /\ UNCHANGED <<server, ldap, disk, pxe, UCC, IMAGE, updated, mounted, hist,
                   count>>

no_server_left ==
    /\ pc = "update" /\ root_device /\ todo = <<>>
    /\ Goto("mount")
    /\ UNCHANGED <<server, ldap, disk, hist, count>>

-----------------------------------------------------------------------------
(* _check_and_copy_image.                                                  *)

medium == server[cur][IMAGE]        \* version of the image on boot_medium

check_md5 ==
    /\ pc = "check"
    /\ CASE medium = 0         -> Goto("update")       \* return 1, next server
         [] local_md5 = medium -> Goto("mount")        \* "was not updated"
         [] OTHER -> Goto(IF Present(local_image) THEN "syncTo" ELSE "space")
    /\ UNCHANGED <<server, ldap, disk, hist, count>>

(* _sync_to_persistent, run in the old image: the previous copy is moved   *)
(* away, then files and UCR variables are copied one by one.               *)
rmtree_SAVE ==
    /\ pc = "syncTo"
    /\ save' = NoData
    /\ Goto("rename")
    /\ UNCHANGED <<server, ldap, root_device, files, local_image, local_md5,
                   marker, persistent, orphans, hist, count>>

rename_SAVE ==
    /\ pc = "rename"
    /\ save' = persistent /\ persistent' = NoData
    /\ Goto("makedirs")
    /\ UNCHANGED <<server, ldap, root_device, files, local_image, local_md5,
                   marker, orphans, hist, count>>

makedirs_persistent ==
    /\ pc = "makedirs"
    /\ persistent' = Partial
    /\ Goto("copyTo")
    /\ UNCHANGED <<server, ldap, root_device, files, local_image, local_md5,
                   marker, save, orphans, hist, count>>

copy_to_persistent_storage ==
    /\ pc = "copyTo"
    /\ persistent' = files[local_image].data
    /\ Goto("touch")
    /\ UNCHANGED <<server, ldap, root_device, files, local_image, local_md5,
                   marker, save, orphans, hist, count>>

(* Mutant: the order to copy the data back is forgotten.                   *)
touch_marker_forgotten ==
    /\ pc = "touch"
    /\ Goto("space")
    /\ UNCHANGED <<server, ldap, disk, hist, count>>

touch_marker ==
    /\ pc = "touch"
    /\ marker' = TRUE
    /\ Goto("space")
    /\ UNCHANGED <<server, ldap, root_device, files, local_image, local_md5,
                   persistent, save, orphans, hist, count>>

(* The error exits of the two sync scripts lead to failure.                *)
sync_failure ==
    /\ pc \in {"rename", "copyTo", "copyFrom"} /\ failure
    /\ faults < MaxFault /\ faults' = faults + 1
    /\ UNCHANGED <<server, ldap, disk, hist, published, assigns>>

freespace ==
    Capacity - ImgSize * (Cardinality({i \in Images : Present(i)}) + orphans)

(* Mutant: the room the old image will make is not counted.                *)
check_free_space_old_kept ==
    /\ pc = "space"
    /\ IF freespace > ImgSize + Buffer THEN Goto("rm") ELSE failure
    /\ UNCHANGED <<server, ldap, disk, hist, count>>

check_free_space ==
    /\ pc = "space"
    /\ IF (IF Present(local_image) THEN ImgSize ELSE 0) + freespace
             > ImgSize + Buffer
       THEN Goto("rm")
       ELSE failure
    /\ UNCHANGED <<server, ldap, disk, hist, count>>

(* Mutant: only an image of the same name is removed.                      *)
rm_old_image_same_name ==
    /\ pc = "rm"
    /\ IF Present(local_image) /\ local_image = IMAGE
       THEN /\ files' = [files EXCEPT ![local_image] = NoImage]
            /\ removed' = files[local_image].data
       ELSE UNCHANGED <<files, removed>>
    /\ Goto("rsync")
    /\ UNCHANGED <<server, ldap, root_device, local_image, local_md5, marker,
                   persistent, save, orphans, latest, count>>

(* Mutant: the checksum is recorded before the image is copied.            *)
rm_old_image_md5_first ==
    /\ pc = "rm"
    /\ IF Present(local_image)
       THEN /\ files' = [files EXCEPT ![local_image] = NoImage]
            /\ removed' = files[local_image].data
       ELSE UNCHANGED <<files, removed>>
    /\ local_md5' = medium
    /\ Goto("rsync")
    /\ UNCHANGED <<server, ldap, root_device, local_image, marker, persistent,
                   save, orphans, latest, count>>

rm_old_image ==
    /\ pc = "rm"
    /\ IF Present(local_image)
       THEN /\ files' = [files EXCEPT ![local_image] = NoImage]
            /\ removed' = files[local_image].data
       ELSE UNCHANGED <<files, removed>>
    /\ Goto("rsync")
    /\ UNCHANGED <<server, ldap, root_device, local_image, local_md5, marker,
                   persistent, save, orphans, latest, count>>

(* rsync writes a temporary file and renames it when it is complete.       *)
rsync_image ==
    /\ pc = "rsync" /\ medium # 0
    /\ files' = [files EXCEPT ![IMAGE] = [ver |-> medium, data |-> Pristine]]
    /\ Goto("echo")
    /\ UNCHANGED <<server, ldap, root_device, local_image, local_md5, marker,
                   persistent, save, orphans, hist, count>>

(* A failed copy ends a PXE boot; the upgrade script tries the next server. *)
rsync_error ==
    /\ pc = "rsync"
    /\ IF pxe THEN failure ELSE Goto("update")
    /\ UNCHANGED <<server, ldap, disk, hist, count>>

echo_local_image ==
    /\ pc = "echo"
    /\ local_image' = IMAGE
    /\ Goto("md5")
    /\ UNCHANGED <<server, ldap, root_device, files, local_md5, marker,
                   persistent, save, orphans, hist, count>>

(* Mutant: the data is not copied back after the update.                   *)
cp_md5_no_restore ==
    /\ pc = "md5"
    /\ local_md5' = medium
    /\ pc' = "mount" /\ updated' = TRUE
    /\ UNCHANGED <<pxe, UCC, IMAGE, todo, cur, mounted>>
    /\ UNCHANGED <<server, ldap, root_device, files, local_image, marker,
                   persistent, save, orphans, hist, count>>

cp_md5 ==
    /\ pc = "md5"
    /\ local_md5' = medium
    /\ IF marker
       THEN Goto("syncFrom")
       ELSE /\ pc' = "mount" /\ updated' = TRUE
            /\ UNCHANGED <<pxe, UCC, IMAGE, todo, cur, mounted>>
    /\ UNCHANGED <<server, ldap, root_device, files, local_image, marker,
                   persistent, save, orphans, hist, count>>

(* _sync_from_persistent, run in the new image.                            *)
sync_to_ucc ==
    /\ pc = "syncFrom"
    /\ IF persistent = NoData
       THEN UNCHANGED files
       ELSE files' = [files EXCEPT ![IMAGE].data = Partial]
    /\ Goto("copyFrom")
    /\ UNCHANGED <<server, ldap, root_device, local_image, local_md5, marker,
                   persistent, save, orphans, hist, count>>

sync_to_ucc_done ==
    /\ pc = "copyFrom"
    /\ IF persistent = NoData
       THEN UNCHANGED files
       ELSE files' = [files EXCEPT ![IMAGE].data = persistent]
    /\ Goto("rmMarker")
    /\ UNCHANGED <<server, ldap, root_device, local_image, local_md5, marker,
                   persistent, save, orphans, hist, count>>

rm_marker ==
    /\ pc = "rmMarker"
    /\ marker' = FALSE
    /\ pc' = "mount" /\ updated' = TRUE
    /\ UNCHANGED <<pxe, UCC, IMAGE, todo, cur, mounted>>
    /\ UNCHANGED <<server, ldap, root_device, files, local_image, local_md5,
                   persistent, save, orphans, hist, count>>

-----------------------------------------------------------------------------
(* _mount_image prefers the image of the boot parameters if it is on the   *)
(* disk, and takes the recorded one otherwise.                             *)
to_mount == IF Present(IMAGE) THEN IMAGE ELSE local_image

mount_image ==
    /\ pc = "mount"
    /\ IF to_mount = None
       THEN failure
       ELSE /\ mounted' = IF Present(to_mount) THEN to_mount ELSE None
            /\ pc' = "rollout"
            /\ UNCHANGED <<pxe, UCC, IMAGE, todo, cur, updated>>
    /\ UNCHANGED <<server, ldap, disk, hist, count>>

(* ucc_image_local: the image must be mounted, otherwise the boot fails.   *)
ucc_image_local ==
    /\ pc = "local"
    /\ IF Present(to_mount)
       THEN /\ mounted' = to_mount /\ pc' = "run"
            /\ UNCHANGED <<pxe, UCC, IMAGE, todo, cur, updated>>
       ELSE failure
    /\ UNCHANGED <<server, ldap, disk, hist, count>>

(* What follows the join in mountroot: after an installation nothing does,  *)
(* a new file system always means a join.                                  *)
after_rollout == IF UCC = "rollout" /\ updated THEN "setVariant" ELSE "run"

(* ucc_rollout: an image that is joined already is left alone.             *)
already_joined ==
    /\ pc = "rollout" /\ mounted # None /\ IsJoined(files[mounted].data)
    /\ Goto(after_rollout)
    /\ UNCHANGED <<server, ldap, disk, hist, count>>

(* A successful join writes the join data into the mounted image; the join *)
(* script 51univention-ucc-initramfs resets the boot variant.              *)
join ==
    /\ pc = "rollout" /\ mounted # None /\ NotJoined(files[mounted].data)
    /\ latest < MaxData
    /\ files' = [files EXCEPT ![mounted].data = latest + 1]
    /\ latest' = latest + 1
    /\ variant' = "none" /\ repartition' = FALSE /\ currentImage' = local_image
    /\ Goto(after_rollout)
    /\ UNCHANGED <<server, assigned, root_device, local_image, local_md5,
                   marker, persistent, save, orphans, removed, count>>

join_failed ==
    /\ pc = "rollout"
    /\ mounted # None => NotJoined(files[mounted].data)
    /\ failure
    /\ UNCHANGED <<server, ldap, disk, hist, count>>

(* set_boot_variant none and update_current_image: errors are only logged. *)
set_boot_variant(ldapOk) ==
    /\ pc = "setVariant"
    /\ IF ldapOk THEN variant' = "none" /\ repartition' = FALSE
                 ELSE UNCHANGED <<variant, repartition>>
    /\ Goto("setCurrent")
    /\ UNCHANGED <<server, assigned, currentImage, disk, hist, count>>

update_current_image(ldapOk) ==
    /\ pc = "setCurrent"
    /\ currentImage' = IF ldapOk THEN local_image ELSE currentImage
    /\ Goto("run")
    /\ UNCHANGED <<server, assigned, variant, repartition, disk, hist, count>>

-----------------------------------------------------------------------------
(* The running system: settings change in the mounted image; it reboots.   *)

change_settings ==
    /\ pc = "run" /\ IsJoined(files[mounted].data) /\ latest < MaxChange
    /\ files' = [files EXCEPT ![mounted].data = latest + 1]
    /\ latest' = latest + 1
    /\ UNCHANGED <<server, ldap, root_device, local_image, local_md5, marker,
                   persistent, save, orphans, boot, removed, count>>

reboot ==
    /\ pc = "run"
    /\ PowerOff
    /\ UNCHANGED <<server, ldap, disk, hist, count>>

(* A power failure: the disk keeps what was written; an rsync under way    *)
(* leaves its temporary file.                                              *)
Crash ==
    /\ pc # "off" /\ faults < MaxFault
    /\ faults' = faults + 1
    /\ orphans' = IF pc = "rsync" THEN orphans + 1 ELSE orphans
    /\ PowerOff
    /\ UNCHANGED <<server, ldap, root_device, files, local_image, local_md5,
                   marker, persistent, save, hist, published, assigns>>

-----------------------------------------------------------------------------
Admin ==
    \/ \E s \in Servers, i \in Images : Publish(s, i)
    \/ \E s, t \in Servers, i \in Images : Replicate(s, t, i)
    \/ \E i \in Images, v \in {"none", "rollout"}, r \in BOOLEAN : Assign(i, v, r)

Copy ==
    \/ check_md5 \/ rmtree_SAVE \/ rename_SAVE \/ makedirs_persistent
    \/ copy_to_persistent_storage \/ touch_marker \/ sync_failure
    \/ check_free_space \/ rm_old_image \/ rsync_image \/ rsync_error
    \/ echo_local_image \/ cp_md5 \/ sync_to_ucc \/ sync_to_ucc_done
    \/ rm_marker

Script ==
    \/ \E s \in Servers : BootPXE(s)
    \/ \E ok \in BOOLEAN : BootLocal(ok)
    \/ partition \/ mark_root_device \/ partition_aborted
    \/ ucc_update_install
    \/ \E ok \in BOOLEAN : mount_server(ok)
    \/ no_server_left
    \/ Copy
    \/ mount_image \/ ucc_image_local
    \/ already_joined \/ join \/ join_failed
    \/ \E ok \in BOOLEAN : set_boot_variant(ok) \/ update_current_image(ok)

Next == Admin \/ Script \/ change_settings \/ reboot \/ Crash

Spec == Init /\ [][Next]_vars

(* The script is a process that keeps running (WF).  A machine that keeps   *)
(* failing is powered on by PXE again and again, and a server that stays   *)
(* up answers, delivers the image and joins the client eventually (SF).    *)
(* A running client is restarted some day.                                 *)
Fairness ==
    /\ WF_vars(Script)
    /\ \A s \in Servers : SF_vars(BootPXE(s))
    /\ SF_vars(partition) /\ SF_vars(mount_server(TRUE))
    /\ SF_vars(rename_SAVE) /\ SF_vars(copy_to_persistent_storage)
    /\ SF_vars(rsync_image) /\ SF_vars(sync_to_ucc_done) /\ SF_vars(join)
    /\ WF_vars(reboot)

FairSpec == Spec /\ Fairness

-----------------------------------------------------------------------------
(* Type correctness of the whole state.                                    *)
TypeOK ==
    /\ server \in [Servers -> [Images -> Versions]]
    /\ assigned \in Images /\ currentImage \in Images \cup {None}
    /\ variant \in {"none", "rollout"} /\ repartition \in BOOLEAN
    /\ root_device \in BOOLEAN
    /\ files \in [Images -> [ver : Versions, data : Data]]
    /\ local_image \in Images \cup {None} /\ local_md5 \in Versions
    /\ marker \in BOOLEAN /\ persistent \in Data /\ save \in Data
    /\ orphans \in Nat
    /\ pc \in PCs /\ pxe \in BOOLEAN /\ UCC \in {"none", "rollout", "install"}
    /\ IMAGE \in Images \cup {None} /\ todo \in Seq(Servers)
    /\ cur \in Servers \cup {None}
    /\ updated \in BOOLEAN /\ mounted \in Images \cup {None}
    /\ latest \in 0 .. MaxData /\ removed \in Data
    /\ published \in 0 .. MaxPublish /\ assigns \in 0 .. MaxAssign
    /\ faults \in 0 .. MaxFault

(* _check_and_copy_image never destroys system data that it has not copied: *)
(* whenever the recorded image file is missing (removed to make room, copy  *)
(* interrupted, power failed), the persistent storage holds a complete copy *)
(* of the data that was in it, and the marker that orders the copy back is  *)
(* set.                                                                    *)
BackupBeforeRemoval ==
    local_image # None /\ ~Present(local_image)
        => marker /\ persistent = removed

(* The check for an update is sound: when it decides "The image was not     *)
(* updated", the recorded image is on the disk and is the very version the *)
(* server offers.                                                          *)
UpdateCheckSound ==
    pc = "check" /\ local_md5 = medium /\ medium # 0
        => Present(local_image) /\ files[local_image].ver = medium

(* Join state and settings survive an update: an image that was recorded as *)
(* installed (its checksum is in local_image.md5) and is mounted after the  *)
(* update check carries the newest data this client ever had.              *)
DataRestored ==
    pc = "rollout" /\ mounted # None /\ files[mounted].ver = local_md5
        => files[mounted].data = latest

(* The same, as long as the power never failed and no sync script did: no   *)
(* order of publishing, assigning, joining and changing loses data.        *)
DataRestoredIfNoFault == faults = 0 => DataRestored

(* No image file is left behind on the root partition: all but the one that *)
(* is recorded (or being recorded) are removed, so the space check of the   *)
(* next update sees the whole partition.  Only a power failure between the *)
(* copy and its record leaves a second one.                                *)
OneImageOnDisk ==
    faults = 0 =>
        \A i \in Images : Present(i) /\ pc # "echo" => i = local_image

(* A client told to update its image gets there: in boot mode "rollout" it  *)
(* does not fail, reboot and fail again for ever.                          *)
RolloutEventuallyRuns ==
    pc = "off" /\ variant = "rollout" ~> pc = "run" \/ variant # "rollout"
=============================================================================
