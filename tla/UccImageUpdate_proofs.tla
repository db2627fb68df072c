----------------------- MODULE UccImageUpdate_proofs -----------------------
(***************************************************************************)
(* Proofs about UccImageUpdate, for every set of images and servers, every *)
(* size of the disk and any number of updates, orders and power failures.  *)
(***************************************************************************)
EXTENDS UccImageUpdate, TLAPS

(* What the script knows at each of its steps.  BackupBeforeRemoval is not *)
(* inductive alone: that the copy is complete when the old image is removed *)
(* is a fact the steps of _sync_to_persistent establish one by one.        *)
Saving   == {"syncTo", "rename", "makedirs", "copyTo", "touch"}
Copied   == {"echo", "md5", "syncFrom", "copyFrom", "rmMarker"}
Recorded == {"md5", "syncFrom", "copyFrom", "rmMarker"}
Checking == Saving \cup Copied \cup {"check", "space", "rm", "rsync"}

StepInv ==
    /\ pc \in Checking \cup {"install", "mkfs", "update"}
          => IMAGE \in Images
    /\ pc \in Checking => cur \in Servers
    /\ pc \in Saving => Present(local_image)
    /\ pc \in Copied => Present(IMAGE)
    /\ pc \in Recorded => local_image = IMAGE
    /\ pc = "touch" => persistent = files[local_image].data
    /\ pc \in {"space", "rm"} /\ Present(local_image)
          => marker /\ persistent = files[local_image].data
    /\ pc \in {"setVariant", "setCurrent", "run"} => mounted \in Images

(* TypeOK, one part per tuple of variables.                                *)
LdapTypeOK ==
    /\ server \in [Servers -> [Images -> Versions]]
    /\ assigned \in Images /\ currentImage \in Images \cup {None}
    /\ variant \in {"none", "rollout"} /\ repartition \in BOOLEAN

DiskTypeOK ==
    /\ root_device \in BOOLEAN
    /\ files \in [Images -> [ver : Versions, data : Data]]
    /\ local_image \in Images \cup {None} /\ local_md5 \in Versions
    /\ marker \in BOOLEAN /\ persistent \in Data /\ save \in Data
    /\ orphans \in Nat

BootTypeOK ==
    /\ pc \in PCs /\ pxe \in BOOLEAN /\ UCC \in {"none", "rollout", "install"}
    /\ IMAGE \in Images \cup {None} /\ todo \in Seq(Servers)
    /\ cur \in Servers \cup {None}
    /\ updated \in BOOLEAN /\ mounted \in Images \cup {None}

CountTypeOK ==
    /\ latest \in 0 .. MaxData /\ removed \in Data
    /\ published \in 0 .. MaxPublish /\ assigns \in 0 .. MaxAssign
    /\ faults \in 0 .. MaxFault

IInv ==
    /\ LdapTypeOK /\ DiskTypeOK /\ BootTypeOK /\ CountTypeOK
    /\ StepInv /\ BackupBeforeRemoval

USE SizeAssumption, PublishAssumption, ServerAssumption, BoundAssumption,
    ImageAssumption

(* The bounds make versions and system data ranges of integers that hold   *)
(* the special values the script's records start from.                     *)
LEMMA Values ==
    /\ {0, 1} \subseteq Versions
    /\ {Pristine, Partial, NoData} \subseteq Data
    /\ \A n \in 0 .. MaxData : n \in Data
    /\ 1 \in 0 .. MaxData /\ 0 \in 0 .. MaxData
    BY DEF Versions, Data, MaxData, Pristine, Partial, NoData

(* The data a join or a change of settings writes is one newer than before, *)
(* and within the bound.                                                   *)
LEMMA NextData ==
    ASSUME NEW n \in 0 .. MaxData, n < MaxData
    PROVE  n + 1 \in Data /\ n + 1 \in 0 .. MaxData
    BY DEF Data, MaxData, NoData

(* Writing system data into an image file (a join, a change of settings)   *)
(* leaves a well-formed collection of files.                               *)
LEMMA DataWritten ==
    ASSUME NEW f \in [Images -> [ver : Versions, data : Data]],
           NEW i, NEW d \in Data
    PROVE  [f EXCEPT ![i].data = d] \in [Images -> [ver : Versions, data : Data]]
<1>1. CASE i \in Images
    <2>1. [f[i] EXCEPT !.data = d] \in [ver : Versions, data : Data]
        BY <1>1
    <2>. QED BY <2>1
<1>2. CASE i \notin Images
    BY <1>2
<1>. QED BY <1>1, <1>2

(* Replacing an image file (removed, copied, half written) leaves a        *)
(* well-formed collection of files too.                                    *)
LEMMA FileReplaced ==
    ASSUME NEW f \in [Images -> [ver : Versions, data : Data]],
           NEW i, NEW r \in [ver : Versions, data : Data]
    PROVE  [f EXCEPT ![i] = r] \in [Images -> [ver : Versions, data : Data]]
    OBVIOUS

(* Every initial state satisfies the inductive invariant.                  *)
LEMMA InitIInv == Init => IInv
<1> SUFFICES ASSUME Init PROVE IInv
    OBVIOUS
<1>1. PICK i \in Images, installed \in BOOLEAN :
          /\ server = [s \in Servers |->
                         [j \in Images |-> IF j = i THEN 1 ELSE 0]]
          /\ assigned = i
          /\ root_device = installed
          /\ variant = IF installed THEN "none" ELSE "rollout"
          /\ currentImage = (IF installed THEN i ELSE None)
          /\ local_image = (IF installed THEN i ELSE None)
          /\ local_md5 = (IF installed THEN 1 ELSE 0)
          /\ latest = (IF installed THEN 1 ELSE Pristine)
          /\ files = [j \in Images |->
                        IF j = i /\ installed
                        THEN [ver |-> 1, data |-> 1] ELSE NoImage]
    BY DEF Init
<1>0. /\ repartition = FALSE /\ marker = FALSE
      /\ persistent = NoData /\ save = NoData /\ orphans = 0
      /\ pc = "off" /\ pxe = FALSE /\ UCC = "none" /\ IMAGE = None
      /\ todo = <<>> /\ cur = None /\ updated = FALSE /\ mounted = None
      /\ removed = Pristine
      /\ published = 0 /\ assigns = 0 /\ faults = 0
    BY DEF Init
<1>2. LdapTypeOK
    BY <1>0, <1>1, Values DEF LdapTypeOK
<1>3. DiskTypeOK
    <2>1. files \in [Images -> [ver : Versions, data : Data]]
        BY <1>1, Values DEF NoImage
    <2>. QED BY <1>0, <1>1, <2>1, Values DEF DiskTypeOK
<1>4. BootTypeOK
    <2>1. todo \in Seq(Servers)
        BY <1>0
    <2>2. pc \in PCs
        BY <1>0 DEF PCs
    <2>3. IMAGE \in Images \cup {None} /\ cur \in Servers \cup {None}
          /\ mounted \in Images \cup {None}
        BY <1>0
    <2>4. UCC \in {"none", "rollout", "install"}
        BY <1>0
    <2>. QED BY <1>0, <2>1, <2>2, <2>3, <2>4 DEF BootTypeOK
<1>5. CountTypeOK
    BY <1>0, <1>1, Values DEF CountTypeOK, Pristine
<1>6. StepInv
    BY <1>0 DEF StepInv, Checking, Saving, Copied, Recorded
<1>7. BackupBeforeRemoval
    BY <1>1 DEF BackupBeforeRemoval, Present, NoImage, None
<1>. QED BY <1>2, <1>3, <1>4, <1>5, <1>6, <1>7 DEF IInv

(* A machine that is off has a well-typed memory.                          *)
LEMMA PowerOffType == PowerOff => BootTypeOK'
<1> SUFFICES ASSUME PowerOff PROVE BootTypeOK'
    OBVIOUS
<1>1. todo' \in Seq(Servers)
    BY DEF PowerOff
<1>2. pc' \in PCs
    BY DEF PowerOff, PCs
<1>3. /\ IMAGE' \in Images \cup {None} /\ cur' \in Servers \cup {None}
      /\ mounted' \in Images \cup {None}
    BY DEF PowerOff
<1>4. UCC' \in {"none", "rollout", "install"}
    BY DEF PowerOff
<1>5. pxe' \in BOOLEAN /\ updated' \in BOOLEAN
    BY DEF PowerOff
<1>. QED BY <1>1, <1>2, <1>3, <1>4, <1>5 DEF BootTypeOK

(* Every step preserves the inductive invariant.                           *)
LEMMA NextIInv == ASSUME IInv, [Next]_vars PROVE IInv'
<1>1. ASSUME NEW s \in Servers, NEW i \in Images, Publish(s, i) PROVE IInv'
    <2>1. DiskTypeOK' /\ BootTypeOK' /\ BackupBeforeRemoval'
        BY <1>1 DEF IInv, Publish, ldap, disk, boot, hist, count, DiskTypeOK,
            BootTypeOK, BackupBeforeRemoval, Present
    <2>2. LdapTypeOK'
        BY <1>1, Values DEF IInv, Publish, ldap, disk, boot, hist, count,
            LdapTypeOK, DiskTypeOK, CountTypeOK, Versions
    <2>3. CountTypeOK'
        BY <1>1, Values DEF IInv, Publish, ldap, disk, boot, hist, count,
            CountTypeOK
    <2>4. StepInv'
        BY <1>1, Values DEF IInv, Publish, ldap, disk, boot, hist, count,
            StepInv, Checking, Saving, Copied, Recorded, Present, NoImage,
            BootTypeOK, DiskTypeOK, LdapTypeOK, PCs
    <2>. QED BY <2>1, <2>2, <2>3, <2>4 DEF IInv
<1>2. ASSUME NEW s \in Servers, NEW t \in Servers, NEW i \in Images,
    Replicate(s, t, i) PROVE IInv'
    <2>1. DiskTypeOK' /\ BootTypeOK' /\ BackupBeforeRemoval'
        BY <1>2 DEF IInv, Replicate, ldap, disk, boot, hist, count,
            DiskTypeOK, BootTypeOK, BackupBeforeRemoval, Present
    <2>2. LdapTypeOK'
        BY <1>2, Values DEF IInv, Replicate, ldap, disk, boot, hist, count,
            LdapTypeOK, DiskTypeOK
    <2>3. CountTypeOK'
        BY <1>2, Values DEF IInv, Replicate, ldap, disk, boot, hist, count,
            CountTypeOK
    <2>4. StepInv'
        BY <1>2, Values DEF IInv, Replicate, ldap, disk, boot, hist, count,
            StepInv, Checking, Saving, Copied, Recorded, Present, NoImage,
            BootTypeOK, DiskTypeOK, LdapTypeOK, PCs
    <2>. QED BY <2>1, <2>2, <2>3, <2>4 DEF IInv
<1>3. ASSUME NEW i \in Images, NEW v \in {"none", "rollout"}, NEW r \in
    BOOLEAN, Assign(i, v, r) PROVE IInv'
    <2>1. DiskTypeOK' /\ BootTypeOK' /\ BackupBeforeRemoval'
        BY <1>3 DEF IInv, Assign, ldap, disk, boot, hist, count, DiskTypeOK,
            BootTypeOK, BackupBeforeRemoval, Present
    <2>2. LdapTypeOK'
        BY <1>3, Values DEF IInv, Assign, ldap, disk, boot, hist, count,
            LdapTypeOK, DiskTypeOK
    <2>3. CountTypeOK'
        BY <1>3, Values DEF IInv, Assign, ldap, disk, boot, hist, count,
            CountTypeOK
    <2>4. StepInv'
        BY <1>3, Values DEF IInv, Assign, ldap, disk, boot, hist, count,
            StepInv, Checking, Saving, Copied, Recorded, Present, NoImage,
            BootTypeOK, DiskTypeOK, LdapTypeOK, PCs
    <2>. QED BY <2>1, <2>2, <2>3, <2>4 DEF IInv
<1>4. ASSUME NEW s \in Servers, BootPXE(s) PROVE IInv'
    <2>1. LdapTypeOK' /\ DiskTypeOK' /\ CountTypeOK' /\ BackupBeforeRemoval'
        BY <1>4 DEF IInv, BootPXE, Mode, Start, ldap, disk, boot, hist,
            count, LdapTypeOK, DiskTypeOK, CountTypeOK, BackupBeforeRemoval,
            Present
    <2>2. BootTypeOK'
        <3>1. UCC' \in {"none", "rollout", "install"}
            BY <1>4 DEF IInv, LdapTypeOK, BootPXE, Mode
        <3>2. pc' \in PCs
            BY <1>4 DEF BootPXE, Start, PCs
        <3>3. todo' \in Seq(Servers)
            BY <1>4 DEF BootPXE
        <3>4. IMAGE' \in Images
            BY <1>4 DEF IInv, LdapTypeOK, BootPXE
        <3>5. /\ pxe' \in BOOLEAN /\ cur' \in Servers \cup {None}
              /\ updated' \in BOOLEAN /\ mounted' \in Images \cup {None}
            BY <1>4 DEF BootPXE
        <3>. QED BY <3>1, <3>2, <3>3, <3>4, <3>5 DEF BootTypeOK
    <2>3. StepInv'
        BY <1>4, Values DEF IInv, BootPXE, Mode, Start, ldap, disk, boot,
            hist, count, StepInv, Checking, Saving, Copied, Recorded,
            Present, NoImage, BootTypeOK, DiskTypeOK, LdapTypeOK, PCs
    <2>. QED BY <2>1, <2>2, <2>3 DEF IInv
<1>5. ASSUME NEW ok \in BOOLEAN, BootLocal(ok) PROVE IInv'
    <2>1. LdapTypeOK' /\ DiskTypeOK' /\ CountTypeOK' /\ BackupBeforeRemoval'
        BY <1>5 DEF IInv, BootLocal, Mode, Start, ldap, disk, boot, hist,
            count, LdapTypeOK, DiskTypeOK, CountTypeOK, BackupBeforeRemoval,
            Present
    <2>2. BootTypeOK'
        <3>1. UCC' \in {"none", "rollout", "install"}
            BY <1>5 DEF IInv, LdapTypeOK, BootLocal, Mode
        <3>2. pc' \in PCs
            BY <1>5 DEF BootLocal, Start, PCs
        <3>3. todo' \in Seq(Servers)
            BY <1>5 DEF BootLocal
        <3>4. IMAGE' \in Images \cup {None}
            BY <1>5 DEF IInv, LdapTypeOK, BootLocal
        <3>5. /\ pxe' \in BOOLEAN /\ cur' \in Servers \cup {None}
              /\ updated' \in BOOLEAN /\ mounted' \in Images \cup {None}
            BY <1>5 DEF BootLocal
        <3>. QED BY <3>1, <3>2, <3>3, <3>4, <3>5 DEF BootTypeOK
    <2>3. StepInv'
        BY <1>5, Values DEF IInv, BootLocal, Mode, Start, ldap, disk, boot,
            hist, count, StepInv, Checking, Saving, Copied, Recorded,
            Present, NoImage, BootTypeOK, DiskTypeOK, LdapTypeOK, PCs
    <2>. QED BY <2>1, <2>2, <2>3 DEF IInv
<1>6. ASSUME partition PROVE IInv'
    <2>1. LdapTypeOK'
        BY <1>6 DEF IInv, partition, Goto, ldap, disk, boot, hist, count,
            LdapTypeOK
    <2>2. DiskTypeOK'
        BY <1>6, Values DEF IInv, partition, Goto, ldap, disk, boot, hist,
            count, DiskTypeOK, NoImage, Present, StepInv, Checking, Saving,
            Copied, Recorded, LdapTypeOK
    <2>3. BootTypeOK'
        BY <1>6 DEF IInv, partition, Goto, ldap, disk, boot, hist, count,
            BootTypeOK, PCs
    <2>4. CountTypeOK'
        BY <1>6, Values DEF IInv, partition, Goto, ldap, disk, boot, hist,
            count, CountTypeOK, Pristine
    <2>5. StepInv'
        BY <1>6, Values DEF IInv, partition, Goto, ldap, disk, boot, hist,
            count, StepInv, Checking, Saving, Copied, Recorded, Present,
            NoImage, BootTypeOK, DiskTypeOK, LdapTypeOK, PCs
    <2>6. BackupBeforeRemoval'
        BY <1>6 DEF IInv, partition, Goto, ldap, disk, boot, hist, count,
            BackupBeforeRemoval, Present, NoImage, StepInv, Checking, Saving,
            Copied, Recorded, DiskTypeOK, BootTypeOK
    <2>. QED BY <2>1, <2>2, <2>3, <2>4, <2>5, <2>6 DEF IInv
<1>7. ASSUME mark_root_device PROVE IInv'
    <2>1. LdapTypeOK' /\ CountTypeOK' /\ BackupBeforeRemoval'
        BY <1>7 DEF IInv, mark_root_device, Goto, ldap, disk, boot, hist,
            count, LdapTypeOK, CountTypeOK, BackupBeforeRemoval, Present
    <2>2. DiskTypeOK'
        BY <1>7, Values DEF IInv, mark_root_device, Goto, ldap, disk, boot,
            hist, count, DiskTypeOK, NoImage, Present, StepInv, Checking,
            Saving, Copied, Recorded, LdapTypeOK
    <2>3. BootTypeOK'
        BY <1>7 DEF IInv, mark_root_device, Goto, ldap, disk, boot, hist,
            count, BootTypeOK, PCs
    <2>4. StepInv'
        BY <1>7, Values DEF IInv, mark_root_device, Goto, ldap, disk, boot,
            hist, count, StepInv, Checking, Saving, Copied, Recorded,
            Present, NoImage, BootTypeOK, DiskTypeOK, LdapTypeOK, PCs
    <2>. QED BY <2>1, <2>2, <2>3, <2>4 DEF IInv
<1>8. ASSUME partition_aborted PROVE IInv'
    <2>1. LdapTypeOK' /\ DiskTypeOK' /\ CountTypeOK' /\ BackupBeforeRemoval'
        BY <1>8 DEF IInv, partition_aborted, failure, PowerOff, ldap, disk,
            boot, hist, count, LdapTypeOK, DiskTypeOK, CountTypeOK,
            BackupBeforeRemoval, Present
    <2>2. BootTypeOK'
        BY <1>8, PowerOffType DEF IInv, partition_aborted, failure, ldap,
            disk, boot, hist, count, BootTypeOK, PCs
    <2>3. StepInv'
        BY <1>8, Values DEF IInv, partition_aborted, failure, PowerOff, ldap,
            disk, boot, hist, count, StepInv, Checking, Saving, Copied,
            Recorded, Present, NoImage, BootTypeOK, DiskTypeOK, LdapTypeOK,
            PCs
    <2>. QED BY <2>1, <2>2, <2>3 DEF IInv
<1>9. ASSUME ucc_update_install PROVE IInv'
    <2>1. LdapTypeOK' /\ DiskTypeOK' /\ CountTypeOK' /\ BackupBeforeRemoval'
        BY <1>9 DEF IInv, ucc_update_install, Goto, ldap, disk, boot, hist,
            count, LdapTypeOK, DiskTypeOK, CountTypeOK, BackupBeforeRemoval,
            Present
    <2>2. BootTypeOK'
        BY <1>9 DEF IInv, ucc_update_install, Goto, ldap, disk, boot, hist,
            count, BootTypeOK, PCs
    <2>3. StepInv'
        BY <1>9, Values DEF IInv, ucc_update_install, Goto, ldap, disk, boot,
            hist, count, StepInv, Checking, Saving, Copied, Recorded,
            Present, NoImage, BootTypeOK, DiskTypeOK, LdapTypeOK, PCs
    <2>. QED BY <2>1, <2>2, <2>3 DEF IInv
<1>10. ASSUME NEW ok \in BOOLEAN, mount_server(ok) PROVE IInv'
    <2>1. LdapTypeOK' /\ DiskTypeOK' /\ CountTypeOK' /\ BackupBeforeRemoval'
        BY <1>10 DEF IInv, mount_server, ldap, disk, boot, hist, count,
            LdapTypeOK, DiskTypeOK, CountTypeOK, BackupBeforeRemoval, Present
    <2>2. BootTypeOK'
        <3>1. todo \in Seq(Servers) /\ todo # <<>>
            BY <1>10 DEF IInv, mount_server, BootTypeOK
        <3>2. Tail(todo) \in Seq(Servers) /\ Head(todo) \in Servers
            BY <3>1
        <3>. QED BY <1>10, <3>2 DEF IInv, mount_server, BootTypeOK, PCs
    <2>3. StepInv'
        <3>1. cur' \in Servers
            BY <1>10 DEF IInv, mount_server, BootTypeOK
        <3>2. pc = "update" /\ pc' \in {"check", "update"} /\ IMAGE' = IMAGE
            BY <1>10 DEF mount_server
        <3>. QED BY <3>1, <3>2 DEF IInv, StepInv, Checking, Saving, Copied,
            Recorded
    <2>. QED BY <2>1, <2>2, <2>3 DEF IInv
<1>11. ASSUME no_server_left PROVE IInv'
    <2>1. LdapTypeOK' /\ DiskTypeOK' /\ CountTypeOK' /\ BackupBeforeRemoval'
        BY <1>11 DEF IInv, no_server_left, Goto, ldap, disk, boot, hist,
            count, LdapTypeOK, DiskTypeOK, CountTypeOK, BackupBeforeRemoval,
            Present
    <2>2. BootTypeOK'
        BY <1>11 DEF IInv, no_server_left, Goto, ldap, disk, boot, hist,
            count, BootTypeOK, PCs
    <2>3. StepInv'
        BY <1>11, Values DEF IInv, no_server_left, Goto, ldap, disk, boot,
            hist, count, StepInv, Checking, Saving, Copied, Recorded,
            Present, NoImage, BootTypeOK, DiskTypeOK, LdapTypeOK, PCs
    <2>. QED BY <2>1, <2>2, <2>3 DEF IInv
<1>12. ASSUME check_md5 PROVE IInv'
    <2>1. LdapTypeOK' /\ DiskTypeOK' /\ CountTypeOK' /\ BackupBeforeRemoval'
        BY <1>12 DEF IInv, check_md5, Goto, medium, ldap, disk, boot, hist,
            count, LdapTypeOK, DiskTypeOK, CountTypeOK, BackupBeforeRemoval,
            Present
    <2>2. BootTypeOK'
        BY <1>12 DEF IInv, check_md5, Goto, medium, ldap, disk, boot, hist,
            count, BootTypeOK, PCs
    <2>3. StepInv'
        BY <1>12, Values DEF IInv, check_md5, Goto, medium, ldap, disk, boot,
            hist, count, StepInv, Checking, Saving, Copied, Recorded,
            Present, NoImage, BootTypeOK, DiskTypeOK, LdapTypeOK, PCs
    <2>. QED BY <2>1, <2>2, <2>3 DEF IInv
<1>13. ASSUME rmtree_SAVE PROVE IInv'
    <2>1. LdapTypeOK' /\ CountTypeOK' /\ BackupBeforeRemoval'
        BY <1>13 DEF IInv, rmtree_SAVE, Goto, ldap, disk, boot, hist, count,
            LdapTypeOK, CountTypeOK, BackupBeforeRemoval, Present
    <2>2. DiskTypeOK'
        BY <1>13, Values DEF IInv, rmtree_SAVE, Goto, ldap, disk, boot, hist,
            count, DiskTypeOK, NoImage, Present, StepInv, Checking, Saving,
            Copied, Recorded, LdapTypeOK
    <2>3. BootTypeOK'
        BY <1>13 DEF IInv, rmtree_SAVE, Goto, ldap, disk, boot, hist, count,
            BootTypeOK, PCs
    <2>4. StepInv'
        BY <1>13, Values DEF IInv, rmtree_SAVE, Goto, ldap, disk, boot, hist,
            count, StepInv, Checking, Saving, Copied, Recorded, Present,
            NoImage, BootTypeOK, DiskTypeOK, LdapTypeOK, PCs
    <2>. QED BY <2>1, <2>2, <2>3, <2>4 DEF IInv
<1>14. ASSUME rename_SAVE PROVE IInv'
    <2>1. LdapTypeOK' /\ CountTypeOK'
        BY <1>14 DEF IInv, rename_SAVE, Goto, ldap, disk, boot, hist, count,
            LdapTypeOK, CountTypeOK
    <2>2. DiskTypeOK'
        BY <1>14, Values DEF IInv, rename_SAVE, Goto, ldap, disk, boot, hist,
            count, DiskTypeOK, NoImage, Present, StepInv, Checking, Saving,
            Copied, Recorded, LdapTypeOK
    <2>3. BootTypeOK'
        BY <1>14 DEF IInv, rename_SAVE, Goto, ldap, disk, boot, hist, count,
            BootTypeOK, PCs
    <2>4. StepInv'
        BY <1>14, Values DEF IInv, rename_SAVE, Goto, ldap, disk, boot, hist,
            count, StepInv, Checking, Saving, Copied, Recorded, Present,
            NoImage, BootTypeOK, DiskTypeOK, LdapTypeOK, PCs
    <2>5. BackupBeforeRemoval'
        BY <1>14 DEF IInv, rename_SAVE, Goto, ldap, disk, boot, hist, count,
            BackupBeforeRemoval, Present, NoImage, StepInv, Checking, Saving,
            Copied, Recorded, DiskTypeOK, BootTypeOK
    <2>. QED BY <2>1, <2>2, <2>3, <2>4, <2>5 DEF IInv
<1>15. ASSUME makedirs_persistent PROVE IInv'
    <2>1. LdapTypeOK' /\ CountTypeOK'
        BY <1>15 DEF IInv, makedirs_persistent, Goto, ldap, disk, boot, hist,
            count, LdapTypeOK, CountTypeOK
    <2>2. DiskTypeOK'
        BY <1>15, Values DEF IInv, makedirs_persistent, Goto, ldap, disk,
            boot, hist, count, DiskTypeOK, NoImage, Present, StepInv,
            Checking, Saving, Copied, Recorded, LdapTypeOK
    <2>3. BootTypeOK'
        BY <1>15 DEF IInv, makedirs_persistent, Goto, ldap, disk, boot, hist,
            count, BootTypeOK, PCs
    <2>4. StepInv'
        BY <1>15, Values DEF IInv, makedirs_persistent, Goto, ldap, disk,
            boot, hist, count, StepInv, Checking, Saving, Copied, Recorded,
            Present, NoImage, BootTypeOK, DiskTypeOK, LdapTypeOK, PCs
    <2>5. BackupBeforeRemoval'
        BY <1>15 DEF IInv, makedirs_persistent, Goto, ldap, disk, boot, hist,
            count, BackupBeforeRemoval, Present, NoImage, StepInv, Checking,
            Saving, Copied, Recorded, DiskTypeOK, BootTypeOK
    <2>. QED BY <2>1, <2>2, <2>3, <2>4, <2>5 DEF IInv
<1>16. ASSUME copy_to_persistent_storage PROVE IInv'
    <2>1. LdapTypeOK' /\ CountTypeOK'
        BY <1>16 DEF IInv, copy_to_persistent_storage, Goto, ldap, disk,
            boot, hist, count, LdapTypeOK, CountTypeOK
    <2>2. DiskTypeOK'
        BY <1>16, Values DEF IInv, copy_to_persistent_storage, Goto, ldap,
            disk, boot, hist, count, DiskTypeOK, NoImage, Present, StepInv,
            Checking, Saving, Copied, Recorded, LdapTypeOK
    <2>3. BootTypeOK'
        BY <1>16 DEF IInv, copy_to_persistent_storage, Goto, ldap, disk,
            boot, hist, count, BootTypeOK, PCs
    <2>4. StepInv'
        BY <1>16, Values DEF IInv, copy_to_persistent_storage, Goto, ldap,
            disk, boot, hist, count, StepInv, Checking, Saving, Copied,
            Recorded, Present, NoImage, BootTypeOK, DiskTypeOK, LdapTypeOK,
            PCs
    <2>5. BackupBeforeRemoval'
        BY <1>16 DEF IInv, copy_to_persistent_storage, Goto, ldap, disk,
            boot, hist, count, BackupBeforeRemoval, Present, NoImage,
            StepInv, Checking, Saving, Copied, Recorded, DiskTypeOK,
            BootTypeOK
    <2>. QED BY <2>1, <2>2, <2>3, <2>4, <2>5 DEF IInv
<1>17. ASSUME touch_marker PROVE IInv'
    <2>1. LdapTypeOK' /\ CountTypeOK'
        BY <1>17 DEF IInv, touch_marker, Goto, ldap, disk, boot, hist, count,
            LdapTypeOK, CountTypeOK
    <2>2. DiskTypeOK'
        BY <1>17, Values DEF IInv, touch_marker, Goto, ldap, disk, boot,
            hist, count, DiskTypeOK, NoImage, Present, StepInv, Checking,
            Saving, Copied, Recorded, LdapTypeOK
    <2>3. BootTypeOK'
        BY <1>17 DEF IInv, touch_marker, Goto, ldap, disk, boot, hist, count,
            BootTypeOK, PCs
    <2>4. StepInv'
        BY <1>17, Values DEF IInv, touch_marker, Goto, ldap, disk, boot,
            hist, count, StepInv, Checking, Saving, Copied, Recorded,
            Present, NoImage, BootTypeOK, DiskTypeOK, LdapTypeOK, PCs
    <2>5. BackupBeforeRemoval'
        BY <1>17 DEF IInv, touch_marker, Goto, ldap, disk, boot, hist, count,
            BackupBeforeRemoval, Present, NoImage, StepInv, Checking, Saving,
            Copied, Recorded, DiskTypeOK, BootTypeOK
    <2>. QED BY <2>1, <2>2, <2>3, <2>4, <2>5 DEF IInv
<1>18. ASSUME sync_failure PROVE IInv'
    <2>1. LdapTypeOK' /\ DiskTypeOK' /\ BackupBeforeRemoval'
        BY <1>18 DEF IInv, sync_failure, failure, PowerOff, ldap, disk, boot,
            hist, count, LdapTypeOK, DiskTypeOK, BackupBeforeRemoval, Present
    <2>2. BootTypeOK'
        BY <1>18, PowerOffType DEF IInv, sync_failure, failure, ldap, disk,
            boot, hist, count, BootTypeOK, PCs
    <2>3. CountTypeOK'
        BY <1>18, Values DEF IInv, sync_failure, failure, PowerOff, ldap,
            disk, boot, hist, count, CountTypeOK
    <2>4. StepInv'
        BY <1>18, Values DEF IInv, sync_failure, failure, PowerOff, ldap,
            disk, boot, hist, count, StepInv, Checking, Saving, Copied,
            Recorded, Present, NoImage, BootTypeOK, DiskTypeOK, LdapTypeOK,
            PCs
    <2>. QED BY <2>1, <2>2, <2>3, <2>4 DEF IInv
<1>19. ASSUME check_free_space PROVE IInv'
    <2>1. LdapTypeOK' /\ DiskTypeOK' /\ CountTypeOK' /\ BackupBeforeRemoval'
        BY <1>19 DEF IInv, check_free_space, Goto, failure, PowerOff, ldap,
            disk, boot, hist, count, LdapTypeOK, DiskTypeOK, CountTypeOK,
            BackupBeforeRemoval, Present
    <2>2. BootTypeOK'
        BY <1>19, PowerOffType DEF IInv, check_free_space, Goto, failure,
            ldap, disk, boot, hist, count, BootTypeOK, PCs
    <2>3. StepInv'
        BY <1>19, Values DEF IInv, check_free_space, Goto, failure, PowerOff,
            ldap, disk, boot, hist, count, StepInv, Checking, Saving, Copied,
            Recorded, Present, NoImage, BootTypeOK, DiskTypeOK, LdapTypeOK,
            PCs
    <2>. QED BY <2>1, <2>2, <2>3 DEF IInv
<1>20. ASSUME rm_old_image PROVE IInv'
    <2>1. LdapTypeOK'
        BY <1>20 DEF IInv, rm_old_image, Goto, ldap, disk, boot, hist, count,
            LdapTypeOK
    <2>2. DiskTypeOK'
        <3>1. NoImage \in [ver : Versions, data : Data]
            BY Values DEF NoImage
        <3>2. files' \in [Images -> [ver : Versions, data : Data]]
            BY <1>20, <3>1, FileReplaced DEF IInv, rm_old_image, DiskTypeOK
        <3>. QED BY <1>20, <3>2 DEF IInv, rm_old_image, DiskTypeOK
    <2>3. BootTypeOK'
        BY <1>20 DEF IInv, rm_old_image, Goto, ldap, disk, boot, hist, count,
            BootTypeOK, PCs
    <2>4. CountTypeOK'
        BY <1>20, Values DEF IInv, rm_old_image, Goto, ldap, disk, boot,
            hist, count, CountTypeOK, DiskTypeOK, Present, MaxData
    <2>5. StepInv'
        BY <1>20, Values DEF IInv, rm_old_image, Goto, ldap, disk, boot,
            hist, count, StepInv, Checking, Saving, Copied, Recorded,
            Present, NoImage, BootTypeOK, DiskTypeOK, LdapTypeOK, PCs
    <2>6. BackupBeforeRemoval'
        <3>1. CASE Present(local_image)
            <4>1. removed' = files[local_image].data /\ marker' = marker
                  /\ persistent' = persistent
                BY <1>20, <3>1 DEF rm_old_image
            <4>2. marker /\ persistent = files[local_image].data
                BY <1>20, <3>1 DEF IInv, rm_old_image, StepInv
            <4>. QED BY <4>1, <4>2 DEF BackupBeforeRemoval
        <3>2. CASE ~Present(local_image)
            BY <1>20, <3>2 DEF IInv, rm_old_image, BackupBeforeRemoval, Present
        <3>. QED BY <3>1, <3>2
    <2>. QED BY <2>1, <2>2, <2>3, <2>4, <2>5, <2>6 DEF IInv
<1>21. ASSUME rsync_image PROVE IInv'
    <2>1. LdapTypeOK' /\ CountTypeOK'
        BY <1>21 DEF IInv, rsync_image, Goto, medium, ldap, disk, boot, hist,
            count, LdapTypeOK, CountTypeOK
    <2>2. DiskTypeOK'
        <3>1. medium \in Versions
            BY <1>21 DEF IInv, rsync_image, medium, LdapTypeOK, StepInv,
                Checking
        <3>2. [ver |-> medium, data |-> Pristine] \in
                  [ver : Versions, data : Data]
            BY <3>1, Values
        <3>3. files' \in [Images -> [ver : Versions, data : Data]]
            BY <1>21, <3>2, FileReplaced DEF IInv, rsync_image, DiskTypeOK
        <3>. QED BY <1>21, <3>3 DEF IInv, rsync_image, DiskTypeOK
    <2>3. BootTypeOK'
        BY <1>21 DEF IInv, rsync_image, Goto, medium, ldap, disk, boot, hist,
            count, BootTypeOK, PCs
    <2>4. StepInv'
        BY <1>21, Values DEF IInv, rsync_image, Goto, medium, ldap, disk,
            boot, hist, count, StepInv, Checking, Saving, Copied, Recorded,
            Present, NoImage, BootTypeOK, DiskTypeOK, LdapTypeOK, PCs
    <2>5. BackupBeforeRemoval'
        BY <1>21 DEF IInv, rsync_image, Goto, medium, ldap, disk, boot, hist,
            count, BackupBeforeRemoval, Present, NoImage, StepInv, Checking,
            Saving, Copied, Recorded, DiskTypeOK, BootTypeOK
    <2>. QED BY <2>1, <2>2, <2>3, <2>4, <2>5 DEF IInv
<1>22. ASSUME rsync_error PROVE IInv'
    <2>1. LdapTypeOK' /\ DiskTypeOK' /\ CountTypeOK' /\ BackupBeforeRemoval'
        BY <1>22 DEF IInv, rsync_error, Goto, failure, PowerOff, ldap, disk,
            boot, hist, count, LdapTypeOK, DiskTypeOK, CountTypeOK,
            BackupBeforeRemoval, Present
    <2>2. BootTypeOK'
        BY <1>22, PowerOffType DEF IInv, rsync_error, Goto, failure, ldap,
            disk, boot, hist, count, BootTypeOK, PCs
    <2>3. StepInv'
        BY <1>22, Values DEF IInv, rsync_error, Goto, failure, PowerOff,
            ldap, disk, boot, hist, count, StepInv, Checking, Saving, Copied,
            Recorded, Present, NoImage, BootTypeOK, DiskTypeOK, LdapTypeOK,
            PCs
    <2>. QED BY <2>1, <2>2, <2>3 DEF IInv
<1>23. ASSUME echo_local_image PROVE IInv'
    <2>1. LdapTypeOK' /\ CountTypeOK'
        BY <1>23 DEF IInv, echo_local_image, Goto, ldap, disk, boot, hist,
            count, LdapTypeOK, CountTypeOK
    <2>2. DiskTypeOK'
        BY <1>23, Values DEF IInv, echo_local_image, Goto, ldap, disk, boot,
            hist, count, DiskTypeOK, NoImage, Present, StepInv, Checking,
            Saving, Copied, Recorded, LdapTypeOK
    <2>3. BootTypeOK'
        BY <1>23 DEF IInv, echo_local_image, Goto, ldap, disk, boot, hist,
            count, BootTypeOK, PCs
    <2>4. StepInv'
        BY <1>23, Values DEF IInv, echo_local_image, Goto, ldap, disk, boot,
            hist, count, StepInv, Checking, Saving, Copied, Recorded,
            Present, NoImage, BootTypeOK, DiskTypeOK, LdapTypeOK, PCs
    <2>5. BackupBeforeRemoval'
        BY <1>23 DEF IInv, echo_local_image, Goto, ldap, disk, boot, hist,
            count, BackupBeforeRemoval, Present, NoImage, StepInv, Checking,
            Saving, Copied, Recorded, DiskTypeOK, BootTypeOK
    <2>. QED BY <2>1, <2>2, <2>3, <2>4, <2>5 DEF IInv
<1>24. ASSUME cp_md5 PROVE IInv'
    <2>1. LdapTypeOK' /\ CountTypeOK' /\ BackupBeforeRemoval'
        BY <1>24 DEF IInv, cp_md5, Goto, medium, ldap, disk, boot, hist,
            count, LdapTypeOK, CountTypeOK, BackupBeforeRemoval, Present
    <2>2. DiskTypeOK'
        <3>1. medium \in Versions
            BY <1>24 DEF IInv, cp_md5, medium, StepInv, Checking, Copied,
                LdapTypeOK
        <3>. QED BY <1>24, <3>1 DEF IInv, cp_md5, DiskTypeOK
    <2>3. BootTypeOK'
        BY <1>24 DEF IInv, cp_md5, Goto, medium, ldap, disk, boot, hist,
            count, BootTypeOK, PCs
    <2>4. StepInv'
        BY <1>24, Values DEF IInv, cp_md5, Goto, medium, ldap, disk, boot,
            hist, count, StepInv, Checking, Saving, Copied, Recorded,
            Present, NoImage, BootTypeOK, DiskTypeOK, LdapTypeOK, PCs
    <2>. QED BY <2>1, <2>2, <2>3, <2>4 DEF IInv
<1>25. ASSUME sync_to_ucc PROVE IInv'
    <2>1. LdapTypeOK' /\ CountTypeOK'
        BY <1>25 DEF IInv, sync_to_ucc, Goto, ldap, disk, boot, hist, count,
            LdapTypeOK, CountTypeOK
    <2>2. DiskTypeOK'
        BY <1>25, Values DEF IInv, sync_to_ucc, Goto, ldap, disk, boot, hist,
            count, DiskTypeOK, NoImage, Present, StepInv, Checking, Saving,
            Copied, Recorded, LdapTypeOK
    <2>3. BootTypeOK'
        BY <1>25 DEF IInv, sync_to_ucc, Goto, ldap, disk, boot, hist, count,
            BootTypeOK, PCs
    <2>4. StepInv'
        BY <1>25, Values DEF IInv, sync_to_ucc, Goto, ldap, disk, boot, hist,
            count, StepInv, Checking, Saving, Copied, Recorded, Present,
            NoImage, BootTypeOK, DiskTypeOK, LdapTypeOK, PCs
    <2>5. BackupBeforeRemoval'
        BY <1>25 DEF IInv, sync_to_ucc, Goto, ldap, disk, boot, hist, count,
            BackupBeforeRemoval, Present, NoImage, StepInv, Checking, Saving,
            Copied, Recorded, DiskTypeOK, BootTypeOK
    <2>. QED BY <2>1, <2>2, <2>3, <2>4, <2>5 DEF IInv
<1>26. ASSUME sync_to_ucc_done PROVE IInv'
    <2>1. LdapTypeOK' /\ CountTypeOK'
        BY <1>26 DEF IInv, sync_to_ucc_done, Goto, ldap, disk, boot, hist,
            count, LdapTypeOK, CountTypeOK
    <2>2. DiskTypeOK'
        BY <1>26, Values DEF IInv, sync_to_ucc_done, Goto, ldap, disk, boot,
            hist, count, DiskTypeOK, NoImage, Present, StepInv, Checking,
            Saving, Copied, Recorded, LdapTypeOK
    <2>3. BootTypeOK'
        BY <1>26 DEF IInv, sync_to_ucc_done, Goto, ldap, disk, boot, hist,
            count, BootTypeOK, PCs
    <2>4. StepInv'
        BY <1>26, Values DEF IInv, sync_to_ucc_done, Goto, ldap, disk, boot,
            hist, count, StepInv, Checking, Saving, Copied, Recorded,
            Present, NoImage, BootTypeOK, DiskTypeOK, LdapTypeOK, PCs
    <2>5. BackupBeforeRemoval'
        BY <1>26 DEF IInv, sync_to_ucc_done, Goto, ldap, disk, boot, hist,
            count, BackupBeforeRemoval, Present, NoImage, StepInv, Checking,
            Saving, Copied, Recorded, DiskTypeOK, BootTypeOK
    <2>. QED BY <2>1, <2>2, <2>3, <2>4, <2>5 DEF IInv
<1>27. ASSUME rm_marker PROVE IInv'
    <2>1. LdapTypeOK' /\ CountTypeOK'
        BY <1>27 DEF IInv, rm_marker, ldap, disk, boot, hist, count,
            LdapTypeOK, CountTypeOK
    <2>2. DiskTypeOK'
        BY <1>27, Values DEF IInv, rm_marker, ldap, disk, boot, hist, count,
            DiskTypeOK, NoImage, Present, StepInv, Checking, Saving, Copied,
            Recorded, LdapTypeOK
    <2>3. BootTypeOK'
        BY <1>27 DEF IInv, rm_marker, ldap, disk, boot, hist, count,
            BootTypeOK, PCs
    <2>4. StepInv'
        BY <1>27, Values DEF IInv, rm_marker, ldap, disk, boot, hist, count,
            StepInv, Checking, Saving, Copied, Recorded, Present, NoImage,
            BootTypeOK, DiskTypeOK, LdapTypeOK, PCs
    <2>5. BackupBeforeRemoval'
        BY <1>27 DEF IInv, rm_marker, ldap, disk, boot, hist, count,
            BackupBeforeRemoval, Present, NoImage, StepInv, Checking, Saving,
            Copied, Recorded, DiskTypeOK, BootTypeOK
    <2>. QED BY <2>1, <2>2, <2>3, <2>4, <2>5 DEF IInv
<1>28. ASSUME mount_image PROVE IInv'
    <2>1. LdapTypeOK' /\ DiskTypeOK' /\ CountTypeOK' /\ BackupBeforeRemoval'
        BY <1>28 DEF IInv, mount_image, to_mount, failure, PowerOff, ldap,
            disk, boot, hist, count, LdapTypeOK, DiskTypeOK, CountTypeOK,
            BackupBeforeRemoval, Present
    <2>2. BootTypeOK'
        BY <1>28, PowerOffType DEF IInv, mount_image, to_mount, failure,
            ldap, disk, boot, hist, count, BootTypeOK, PCs, StepInv,
            Checking, Present, DiskTypeOK
    <2>3. StepInv'
        BY <1>28, Values DEF IInv, mount_image, to_mount, failure, PowerOff,
            ldap, disk, boot, hist, count, StepInv, Checking, Saving, Copied,
            Recorded, Present, NoImage, BootTypeOK, DiskTypeOK, LdapTypeOK,
            PCs
    <2>. QED BY <2>1, <2>2, <2>3 DEF IInv
<1>29. ASSUME ucc_image_local PROVE IInv'
    <2>1. LdapTypeOK' /\ DiskTypeOK' /\ CountTypeOK' /\ BackupBeforeRemoval'
        BY <1>29 DEF IInv, ucc_image_local, to_mount, failure, PowerOff,
            ldap, disk, boot, hist, count, LdapTypeOK, DiskTypeOK,
            CountTypeOK, BackupBeforeRemoval, Present
    <2>2. BootTypeOK'
        <3>1. CASE failure
            BY <3>1, PowerOffType DEF failure
        <3>2. CASE ~failure
            BY <1>29, <3>2 DEF IInv, ucc_image_local, BootTypeOK, PCs, Present
        <3>. QED BY <3>1, <3>2
    <2>3. StepInv'
        <3>1. \/ pc' = "off"
              \/ pc' = "run" /\ mounted' \in Images
            BY <1>29 DEF ucc_image_local, failure, PowerOff, Present
        <3>. QED BY <3>1 DEF StepInv, Checking, Saving, Copied, Recorded
    <2>. QED BY <2>1, <2>2, <2>3 DEF IInv
<1>30. ASSUME already_joined PROVE IInv'
    <2>1. LdapTypeOK' /\ DiskTypeOK' /\ CountTypeOK' /\ BackupBeforeRemoval'
        BY <1>30 DEF IInv, already_joined, Goto, after_rollout, ldap, disk,
            boot, hist, count, LdapTypeOK, DiskTypeOK, CountTypeOK,
            BackupBeforeRemoval, Present
    <2>2. BootTypeOK'
        BY <1>30 DEF IInv, already_joined, Goto, after_rollout, ldap, disk,
            boot, hist, count, BootTypeOK, PCs
    <2>3. StepInv'
        BY <1>30, Values DEF IInv, already_joined, Goto, after_rollout, ldap,
            disk, boot, hist, count, StepInv, Checking, Saving, Copied,
            Recorded, Present, NoImage, BootTypeOK, DiskTypeOK, LdapTypeOK,
            PCs
    <2>. QED BY <2>1, <2>2, <2>3 DEF IInv
<1>31. ASSUME join PROVE IInv'
    <2>1. latest \in 0 .. MaxData /\ latest < MaxData
        BY <1>31 DEF IInv, CountTypeOK, join
    <2>2. LdapTypeOK'
        BY <1>31, Values DEF IInv, join, Goto, after_rollout, ldap, disk,
            boot, hist, count, LdapTypeOK, DiskTypeOK
    <2>3. DiskTypeOK'
        <3>1. latest + 1 \in Data
            BY <2>1, NextData
        <3>2. files' \in [Images -> [ver : Versions, data : Data]]
            <4>1. files' = [files EXCEPT ![mounted].data = latest + 1]
                BY <1>31 DEF join
            <4>2. files \in [Images -> [ver : Versions, data : Data]]
                BY DEF IInv, DiskTypeOK
            <4>. QED BY <3>1, <4>1, <4>2, DataWritten
        <3>. QED BY <1>31, <3>2 DEF IInv, DiskTypeOK, join
    <2>4. BootTypeOK'
        BY <1>31 DEF IInv, join, Goto, after_rollout, ldap, disk, boot, hist,
            count, BootTypeOK, PCs
    <2>5. CountTypeOK'
        BY <1>31, <2>1, NextData DEF IInv, CountTypeOK, join, count
    <2>6. StepInv'
        BY <1>31, Values DEF IInv, join, Goto, after_rollout, ldap, disk,
            boot, hist, count, StepInv, Checking, Saving, Copied, Recorded,
            Present, NoImage, BootTypeOK, DiskTypeOK, LdapTypeOK, PCs
    <2>7. BackupBeforeRemoval'
        BY <1>31 DEF IInv, join, Goto, after_rollout, ldap, disk, boot, hist,
            count, BackupBeforeRemoval, Present, NoImage, StepInv, Checking,
            Saving, Copied, Recorded, DiskTypeOK, BootTypeOK
    <2>. QED BY <2>2, <2>3, <2>4, <2>5, <2>6, <2>7 DEF IInv
<1>32. ASSUME join_failed PROVE IInv'
    <2>1. LdapTypeOK' /\ DiskTypeOK' /\ CountTypeOK' /\ BackupBeforeRemoval'
        BY <1>32 DEF IInv, join_failed, failure, PowerOff, ldap, disk, boot,
            hist, count, LdapTypeOK, DiskTypeOK, CountTypeOK,
            BackupBeforeRemoval, Present
    <2>2. BootTypeOK'
        BY <1>32, PowerOffType DEF IInv, join_failed, failure, ldap, disk,
            boot, hist, count, BootTypeOK, PCs
    <2>3. StepInv'
        BY <1>32, Values DEF IInv, join_failed, failure, PowerOff, ldap,
            disk, boot, hist, count, StepInv, Checking, Saving, Copied,
            Recorded, Present, NoImage, BootTypeOK, DiskTypeOK, LdapTypeOK,
            PCs
    <2>. QED BY <2>1, <2>2, <2>3 DEF IInv
<1>33. ASSUME NEW ok \in BOOLEAN, set_boot_variant(ok) PROVE IInv'
    <2>1. DiskTypeOK' /\ CountTypeOK' /\ BackupBeforeRemoval'
        BY <1>33 DEF IInv, set_boot_variant, Goto, ldap, disk, boot, hist,
            count, DiskTypeOK, CountTypeOK, BackupBeforeRemoval, Present
    <2>2. LdapTypeOK'
        BY <1>33, Values DEF IInv, set_boot_variant, Goto, ldap, disk, boot,
            hist, count, LdapTypeOK, DiskTypeOK
    <2>3. BootTypeOK'
        BY <1>33 DEF IInv, set_boot_variant, Goto, ldap, disk, boot, hist,
            count, BootTypeOK, PCs
    <2>4. StepInv'
        BY <1>33, Values DEF IInv, set_boot_variant, Goto, ldap, disk, boot,
            hist, count, StepInv, Checking, Saving, Copied, Recorded,
            Present, NoImage, BootTypeOK, DiskTypeOK, LdapTypeOK, PCs
    <2>. QED BY <2>1, <2>2, <2>3, <2>4 DEF IInv
<1>34. ASSUME NEW ok \in BOOLEAN, update_current_image(ok) PROVE IInv'
    <2>1. DiskTypeOK' /\ CountTypeOK' /\ BackupBeforeRemoval'
        BY <1>34 DEF IInv, update_current_image, Goto, ldap, disk, boot,
            hist, count, DiskTypeOK, CountTypeOK, BackupBeforeRemoval,
            Present
    <2>2. LdapTypeOK'
        BY <1>34, Values DEF IInv, update_current_image, Goto, ldap, disk,
            boot, hist, count, LdapTypeOK, DiskTypeOK
    <2>3. BootTypeOK'
        BY <1>34 DEF IInv, update_current_image, Goto, ldap, disk, boot,
            hist, count, BootTypeOK, PCs
    <2>4. StepInv'
        BY <1>34, Values DEF IInv, update_current_image, Goto, ldap, disk,
            boot, hist, count, StepInv, Checking, Saving, Copied, Recorded,
            Present, NoImage, BootTypeOK, DiskTypeOK, LdapTypeOK, PCs
    <2>. QED BY <2>1, <2>2, <2>3, <2>4 DEF IInv
<1>35. ASSUME change_settings PROVE IInv'
    <2>1. latest \in 0 .. MaxData /\ latest < MaxData
        BY <1>35 DEF IInv, CountTypeOK, change_settings, MaxData
    <2>2. LdapTypeOK' /\ BootTypeOK'
        BY <1>35 DEF IInv, change_settings, ldap, disk, boot, hist, count,
            LdapTypeOK, BootTypeOK
    <2>3. DiskTypeOK'
        <3>1. latest + 1 \in Data
            BY <2>1, NextData
        <3>2. files' \in [Images -> [ver : Versions, data : Data]]
            <4>1. files' = [files EXCEPT ![mounted].data = latest + 1]
                BY <1>35 DEF change_settings
            <4>2. files \in [Images -> [ver : Versions, data : Data]]
                BY DEF IInv, DiskTypeOK
            <4>. QED BY <3>1, <4>1, <4>2, DataWritten
        <3>. QED BY <1>35, <3>2 DEF IInv, DiskTypeOK, change_settings
    <2>4. CountTypeOK'
        BY <1>35, <2>1, NextData DEF IInv, CountTypeOK, change_settings, count
    <2>5. StepInv'
        BY <1>35, Values DEF IInv, change_settings, ldap, disk, boot, hist,
            count, StepInv, Checking, Saving, Copied, Recorded, Present,
            NoImage, BootTypeOK, DiskTypeOK, LdapTypeOK, PCs
    <2>6. BackupBeforeRemoval'
        BY <1>35 DEF IInv, change_settings, ldap, disk, boot, hist, count,
            BackupBeforeRemoval, Present, NoImage, StepInv, Checking, Saving,
            Copied, Recorded, DiskTypeOK, BootTypeOK
    <2>. QED BY <2>2, <2>3, <2>4, <2>5, <2>6 DEF IInv
<1>36. ASSUME reboot PROVE IInv'
    <2>1. LdapTypeOK' /\ DiskTypeOK' /\ CountTypeOK' /\ BackupBeforeRemoval'
        BY <1>36 DEF IInv, reboot, PowerOff, ldap, disk, boot, hist, count,
            LdapTypeOK, DiskTypeOK, CountTypeOK, BackupBeforeRemoval, Present
    <2>2. BootTypeOK'
        BY <1>36, PowerOffType DEF IInv, reboot, ldap, disk, boot, hist,
            count, BootTypeOK, PCs
    <2>3. StepInv'
        BY <1>36, Values DEF IInv, reboot, PowerOff, ldap, disk, boot, hist,
            count, StepInv, Checking, Saving, Copied, Recorded, Present,
            NoImage, BootTypeOK, DiskTypeOK, LdapTypeOK, PCs
    <2>. QED BY <2>1, <2>2, <2>3 DEF IInv
<1>37. ASSUME Crash PROVE IInv'
    <2>1. LdapTypeOK' /\ BackupBeforeRemoval'
        BY <1>37 DEF IInv, Crash, PowerOff, ldap, disk, boot, hist, count,
            LdapTypeOK, BackupBeforeRemoval, Present
    <2>2. DiskTypeOK'
        <3>1. orphans \in Nat
            BY DEF IInv, DiskTypeOK
        <3>2. orphans' \in {orphans, orphans + 1}
            BY <1>37 DEF Crash
        <3>3. orphans' \in Nat
            BY <3>1, <3>2
        <3>. QED BY <1>37, <3>3 DEF IInv, Crash, DiskTypeOK
    <2>3. BootTypeOK'
        BY <1>37, PowerOffType DEF IInv, Crash, ldap, disk, boot, hist,
            count, BootTypeOK, PCs
    <2>4. CountTypeOK'
        <3>1. faults \in 0 .. MaxFault
            BY DEF IInv, CountTypeOK
        <3>2. faults < MaxFault /\ faults' = faults + 1
            BY <1>37 DEF Crash
        <3>3. faults' \in 0 .. MaxFault
            BY <3>1, <3>2
        <3>. QED BY <1>37, <3>3 DEF IInv, Crash, hist, CountTypeOK
    <2>5. StepInv'
        BY <1>37, Values DEF IInv, Crash, PowerOff, ldap, disk, boot, hist,
            count, StepInv, Checking, Saving, Copied, Recorded, Present,
            NoImage, BootTypeOK, DiskTypeOK, LdapTypeOK, PCs
    <2>. QED BY <2>1, <2>2, <2>3, <2>4, <2>5 DEF IInv
<1>38. ASSUME UNCHANGED vars PROVE IInv'
    <2>1. LdapTypeOK' /\ DiskTypeOK'
        BY <1>38 DEF IInv, vars, ldap, disk, LdapTypeOK, DiskTypeOK
    <2>2. BootTypeOK' /\ CountTypeOK'
        BY <1>38 DEF IInv, vars, boot, hist, count, BootTypeOK, CountTypeOK
    <2>3. StepInv'
        BY <1>38 DEF IInv, vars, disk, boot, StepInv, Present
    <2>4. BackupBeforeRemoval'
        BY <1>38 DEF IInv, vars, disk, hist, BackupBeforeRemoval, Present
    <2>. QED BY <2>1, <2>2, <2>3, <2>4 DEF IInv
<1>. QED BY <1>1, <1>2, <1>3, <1>4, <1>5, <1>6, <1>7, <1>8, <1>9, <1>10,
    <1>11, <1>12, <1>13, <1>14, <1>15, <1>16, <1>17, <1>18, <1>19, <1>20,
    <1>21, <1>22, <1>23, <1>24, <1>25, <1>26, <1>27, <1>28, <1>29, <1>30,
    <1>31, <1>32, <1>33, <1>34, <1>35, <1>36, <1>37, <1>38 DEF Next, Admin,
    Script, Copy

(* The script keeps every variable in its type, whatever the interleaving  *)
(* of the boot with the administrator and with power failures.             *)
THEOREM TypeCorrect == Spec => []TypeOK
<1>1. IInv => TypeOK
    BY DEF IInv, LdapTypeOK, DiskTypeOK, BootTypeOK, CountTypeOK, TypeOK
<1>. QED BY InitIInv, NextIInv, <1>1, PTL DEF Spec

(* _check_and_copy_image never removes an image file whose system data it  *)
(* has not copied completely and ordered to be copied back.                *)
THEOREM BackupSafe == Spec => []BackupBeforeRemoval
<1>1. IInv => BackupBeforeRemoval
    BY DEF IInv
<1>. QED BY InitIInv, NextIInv, <1>1, PTL DEF Spec

-----------------------------------------------------------------------------
(* What holds as long as nothing failed.  Restoring is the steps in which  *)
(* the new image does not have the data yet.                               *)
Restoring == {"echo", "md5", "syncFrom", "copyFrom"}
Mounting  == {"rollout", "setVariant", "setCurrent", "run"}

(* No image file but the recorded one, or the one being recorded.          *)
OnlyOne ==
    /\ pc # "echo" => \A i \in Images : Present(i) => i = local_image
    /\ pc = "rsync" => \A i \in Images : ~Present(i)
    /\ pc = "echo" => \A i \in Images : Present(i) => i = IMAGE

(* The newest data is in the persistent storage, ordered to be copied      *)
(* back, unless the client never had any.                                  *)
Stored == IF marker THEN persistent = latest ELSE latest = Pristine

(* The newest data is in the recorded image, or stored if there is none or *)
(* it does not have the data yet.                                          *)
Kept ==
    /\ ~Present(local_image) \/ pc \in Restoring => Stored
    /\ pc \in {"echo", "md5"} => files[IMAGE].data = Pristine
    /\ pc \in {"syncFrom", "copyFrom"} => marker
    /\ Present(local_image) /\ pc \notin Restoring => files[local_image].data = latest

HeldInv ==
    /\ mounted # None => pc \in Mounting /\ Present(mounted)
    /\ faults = 0 => OnlyOne /\ Kept

(* Boots, failures, checks and errors that are only logged leave the disk  *)
(* as it is.                                                               *)
LEMMA DiskStays ==
    ASSUME HeldInv, UNCHANGED <<files, local_image, marker, persistent, latest, faults>>,
           pc \notin Restoring, pc' \notin Restoring \cup {"rsync"},
           mounted' # None => pc' \in Mounting /\ Present(mounted')
    PROVE  HeldInv'
<1>1. \A i : Present(i)' <=> Present(i)
    BY DEF Present
<1>2. Present(mounted)' <=> Present(mounted')
    BY DEF Present
<1>3. Present(local_image)' <=> Present(local_image)
    BY DEF Present
<1>4. faults' = 0 => OnlyOne'
    BY <1>1 DEF HeldInv, OnlyOne, Restoring
<1>5. faults' = 0 => Kept'
    BY <1>3 DEF HeldInv, Kept, Restoring, Stored
<1>. QED BY <1>2, <1>4, <1>5 DEF HeldInv

(* A fault ends the promise, and the boot.                                 *)
LEMMA FaultEnds ==
    ASSUME IInv, PowerOff, faults' = faults + 1
    PROVE  HeldInv'
    BY DEF PowerOff, HeldInv, IInv, CountTypeOK

(* Data written into the mounted image is the newest.                      *)
LEMMA NewestWritten ==
    ASSUME IInv, HeldInv, pc \in Mounting, pc' \in Mounting, mounted # None,
           files' = [files EXCEPT ![mounted].data = latest + 1], latest' = latest + 1,
           UNCHANGED <<local_image, mounted, faults>>
    PROVE  HeldInv'
<1>1. files \in [Images -> [ver : Versions, data : Data]] /\ mounted \in Images
    BY DEF IInv, DiskTypeOK, HeldInv, Present
<1>2. \A i \in Images : /\ files'[i].ver = files[i].ver
                        /\ i = mounted => files'[i].data = latest'
    BY <1>1
<1>3. \A i : Present(i)' <=> Present(i)
    BY <1>2 DEF Present
<1>4. Present(mounted)' /\ (Present(local_image)' <=> Present(local_image))
    BY <1>2 DEF Present, HeldInv
<1>5. faults = 0 => local_image = mounted
    BY <1>1 DEF HeldInv, OnlyOne, Mounting
<1>6. faults' = 0 => OnlyOne'
    BY <1>3 DEF HeldInv, OnlyOne, Mounting
<1>7. faults' = 0 => Kept'
    BY <1>1, <1>2, <1>4, <1>5 DEF Kept, Restoring, Mounting
<1>. QED BY <1>4, <1>6, <1>7 DEF HeldInv

(* Every step keeps it.                                                    *)
LEMMA NextHeld == ASSUME IInv, HeldInv, [Next]_vars PROVE HeldInv'
<1>0. files \in [Images -> [ver : Versions, data : Data]] /\ local_image \in Images \cup {None}
    BY DEF IInv, DiskTypeOK
<1>1. CASE UNCHANGED <<disk, boot, latest, faults>>
    <2>1. UNCHANGED <<files, local_image, marker, persistent, latest, faults, pc, IMAGE, mounted>>
        BY <1>1 DEF disk, boot
    <2>2. UNCHANGED OnlyOne
        BY <2>1 DEF OnlyOne, Present
    <2>3. UNCHANGED Kept
        BY <2>1 DEF Kept, Stored, Present
    <2>4. UNCHANGED Present(mounted)
        BY <2>1 DEF Present
    <2>. QED BY <2>1, <2>2, <2>3, <2>4 DEF HeldInv
<1>2. CASE Admin \/ UNCHANGED vars
    <2>1. UNCHANGED <<disk, boot, latest, faults>>
        BY <1>2 DEF Admin, Publish, Replicate, Assign, vars, hist, count
    <2>. QED BY <1>1, <2>1
<1>3. CASE (\E s \in Servers : BootPXE(s)) \/ (\E ok \in BOOLEAN : BootLocal(ok))
    <2>1. UNCHANGED <<disk, latest, faults>> /\ mounted' = None /\ pc = "off"
        BY <1>3 DEF BootPXE, BootLocal, hist, count
    <2>2. pc' \in {"install", "update", "local"}
        BY <1>3 DEF BootPXE, BootLocal, Start
    <2>. QED BY <2>1, <2>2, DiskStays DEF disk, Restoring
<1>4. CASE partition
    <2>1. /\ pc = "install" /\ pc' = "mkfs" /\ mounted' = mounted
          /\ \A i \in Images : ~Present(i)' 
          /\ ~marker' /\ latest' = Pristine /\ local_image' = None
        BY <1>4 DEF partition, Goto, Present, NoImage
    <2>2. ~Present(local_image)'
        BY <2>1 DEF Present
    <2>. QED BY <2>1, <2>2 DEF HeldInv, OnlyOne, Kept, Stored, Restoring, Mounting
<1>5. CASE \/ mark_root_device \/ ucc_update_install \/ (\E ok \in BOOLEAN : mount_server(ok))
           \/ no_server_left \/ rmtree_SAVE \/ (\E ok \in BOOLEAN : set_boot_variant(ok))
           \/ (\E ok \in BOOLEAN : update_current_image(ok)) \/ already_joined
    <2>1. /\ UNCHANGED <<files, local_image, marker, persistent, latest, faults, mounted>>
          /\ pc \notin Restoring /\ pc' \notin Restoring \cup {"rsync"}
          /\ pc \in Mounting => pc' \in Mounting
        BY <1>5 DEF mark_root_device, ucc_update_install, mount_server, no_server_left, rmtree_SAVE,
                    set_boot_variant, update_current_image, already_joined, after_rollout,
                    Goto, disk, hist, count, Restoring, Mounting
    <2>2. Present(mounted') <=> Present(mounted)
        BY <2>1
    <2>. QED BY <2>1, <2>2, DiskStays DEF HeldInv
<1>6. CASE partition_aborted \/ join_failed \/ reboot
    <2>1. /\ UNCHANGED <<disk, latest, faults>> /\ mounted' = None /\ pc' = "off"
          /\ pc \in {"install", "rollout", "run"}
        BY <1>6 DEF partition_aborted, join_failed, reboot, failure, PowerOff, hist, count
    <2>. QED BY <2>1, DiskStays DEF disk, Restoring
<1>7. CASE check_md5
    <2>1. /\ UNCHANGED <<disk, latest, faults, mounted>> /\ pc = "check"
          /\ pc' \in {"update", "mount", "syncTo", "space"}
        BY <1>7 DEF check_md5, Goto, hist, count
    <2>. QED BY <2>1, DiskStays DEF disk, Restoring, HeldInv, Mounting
<1>8. CASE rename_SAVE \/ makedirs_persistent \/ copy_to_persistent_storage \/ touch_marker
    <2>1. /\ UNCHANGED <<files, local_image, latest, faults, mounted>> /\ pc \in Saving
          /\ pc' \in Saving \cup {"space"}
        BY <1>8 DEF rename_SAVE, makedirs_persistent, copy_to_persistent_storage, touch_marker,
                    Goto, hist, count, Saving
    <2>2. Present(local_image) /\ Present(local_image)'
        BY <2>1 DEF IInv, StepInv, Present
    <2>3. \A i : Present(i)' <=> Present(i)
        BY <2>1 DEF Present
    <2>4. faults' = 0 => OnlyOne'
        BY <2>1, <2>3 DEF HeldInv, OnlyOne, Saving
    <2>5. faults' = 0 => Kept'
        BY <2>1, <2>2 DEF HeldInv, Kept, Saving, Restoring
    <2>6. mounted' = None
        BY <2>1 DEF HeldInv, Mounting, Saving
    <2>. QED BY <2>4, <2>5, <2>6 DEF HeldInv
<1>9. CASE sync_failure \/ Crash
    BY <1>9, FaultEnds DEF sync_failure, Crash, failure
<1>10. CASE check_free_space
    <2>1. /\ UNCHANGED <<disk, latest, faults>> /\ pc = "space" /\ pc' \in {"rm", "off"}
          /\ mounted' \in {mounted, None}
        BY <1>10 DEF check_free_space, Goto, failure, PowerOff, hist, count
    <2>2. mounted' = None
        BY <2>1 DEF HeldInv, Mounting
    <2>. QED BY <2>1, <2>2, DiskStays DEF disk, Restoring
<1>11. CASE rm_old_image
    <2>1. /\ pc = "rm" /\ pc' = "rsync" /\ UNCHANGED <<local_image, marker, persistent, latest, faults, mounted>>
          /\ files' = IF Present(local_image) THEN [files EXCEPT ![local_image] = NoImage] ELSE files
        BY <1>11 DEF rm_old_image, Goto, count
    <2>2. ~Present(local_image)'
        BY <1>0, <2>1 DEF Present, NoImage
    <2>3. \A i \in Images : i # local_image => files'[i] = files[i]
        BY <1>0, <2>1
    <2>4. mounted' = None
        BY <2>1 DEF HeldInv, Mounting
    <2>5. ASSUME faults = 0 PROVE \A i \in Images : ~Present(i)'
        BY <2>1, <2>2, <2>3, <2>5 DEF HeldInv, OnlyOne, Present
    <2>6. ASSUME faults = 0 PROVE Stored'
        <3>1. CASE Present(local_image)
            BY <2>1, <2>5, <2>6, <3>1 DEF IInv, StepInv, HeldInv, Kept, Restoring, Stored
        <3>2. CASE ~Present(local_image)
            BY <2>1, <2>6, <3>2 DEF HeldInv, Kept, Stored
        <3>. QED BY <3>1, <3>2
    <2>. QED BY <2>1, <2>2, <2>4, <2>5, <2>6 DEF HeldInv, OnlyOne, Kept, Restoring
<1>12. CASE rsync_image
    <2>1. /\ pc = "rsync" /\ pc' = "echo" /\ IMAGE \in Images /\ medium # 0
          /\ UNCHANGED <<local_image, marker, persistent, latest, faults, mounted, IMAGE>>
          /\ files' = [files EXCEPT ![IMAGE] = [ver |-> medium, data |-> Pristine]]
        BY <1>12 DEF rsync_image, Goto, hist, count, IInv, StepInv, Checking
    <2>2. files'[IMAGE].data = Pristine /\ \A i \in Images : i # IMAGE => files'[i] = files[i]
        BY <1>0, <2>1
    <2>3. ASSUME faults = 0 PROVE (\A i \in Images : Present(i)' => i = IMAGE) /\ ~Present(local_image)
        BY <2>1, <2>2, <2>3 DEF HeldInv, OnlyOne, Present
    <2>4. ASSUME faults = 0 PROVE Stored'
        BY <2>1, <2>3, <2>4 DEF HeldInv, Kept, Stored
    <2>5. mounted' = None
        BY <2>1 DEF HeldInv, Mounting
    <2>. QED BY <2>1, <2>2, <2>3, <2>4, <2>5 DEF HeldInv, OnlyOne, Kept, Restoring
<1>13. CASE rsync_error
    <2>1. /\ UNCHANGED <<disk, latest, faults>> /\ pc = "rsync" /\ pc' \in {"update", "off"}
          /\ mounted' \in {mounted, None}
        BY <1>13 DEF rsync_error, Goto, failure, PowerOff, hist, count
    <2>2. mounted' = None
        BY <2>1 DEF HeldInv, Mounting
    <2>. QED BY <2>1, <2>2, DiskStays DEF disk, Restoring
<1>14. CASE echo_local_image
    <2>1. /\ pc = "echo" /\ pc' = "md5" /\ local_image' = IMAGE
          /\ UNCHANGED <<files, marker, persistent, latest, faults, mounted, IMAGE>>
        BY <1>14 DEF echo_local_image, Goto, hist, count
    <2>2. \A i : Present(i)' <=> Present(i)
        BY <2>1 DEF Present
    <2>3. mounted' = None
        BY <2>1 DEF HeldInv, Mounting
    <2>4. faults' = 0 => OnlyOne'
        BY <2>1, <2>2 DEF HeldInv, OnlyOne
    <2>5. faults' = 0 => Kept'
        BY <2>1 DEF HeldInv, Kept, Restoring, Stored
    <2>. QED BY <2>3, <2>4, <2>5 DEF HeldInv
<1>15. CASE cp_md5
    <2>1. /\ pc = "md5" /\ pc' = (IF marker THEN "syncFrom" ELSE "mount") /\ local_image = IMAGE
          /\ UNCHANGED <<files, local_image, marker, persistent, latest, faults, mounted, IMAGE>>
        BY <1>15 DEF cp_md5, Goto, hist, count, IInv, StepInv, Recorded
    <2>2. \A i : Present(i)' <=> Present(i)
        BY <2>1 DEF Present
    <2>3. mounted' = None
        BY <2>1 DEF HeldInv, Mounting
    <2>4. faults' = 0 => OnlyOne'
        BY <2>1, <2>2 DEF HeldInv, OnlyOne
    <2>5. faults' = 0 => Kept'
        BY <2>1 DEF HeldInv, Kept, Restoring, Stored
    <2>. QED BY <2>3, <2>4, <2>5 DEF HeldInv
<1>16. CASE sync_to_ucc \/ sync_to_ucc_done
    <2>1. /\ pc \in {"syncFrom", "copyFrom"} /\ local_image = IMAGE /\ Present(IMAGE)
          /\ pc' = (IF pc = "syncFrom" THEN "copyFrom" ELSE "rmMarker")
          /\ UNCHANGED <<local_image, marker, persistent, latest, faults, mounted, IMAGE>>
        BY <1>16 DEF sync_to_ucc, sync_to_ucc_done, Goto, hist, count, IInv, StepInv, Recorded, Copied
    <2>2. PICK d : files' = [files EXCEPT ![IMAGE].data = d]
        <3>1. IMAGE \in Images /\ files = [files EXCEPT ![IMAGE].data = files[IMAGE].data]
            BY <1>0, <2>1 DEF Present
        <3>. QED BY <1>16, <3>1 DEF sync_to_ucc, sync_to_ucc_done
    <2>3. \A i \in Images : files'[i].ver = files[i].ver
        BY <1>0, <2>2
    <2>4. \A i : Present(i)' <=> Present(i)
        BY <2>3 DEF Present
    <2>5. mounted' = None
        BY <2>1 DEF HeldInv, Mounting
    <2>6. faults' = 0 => OnlyOne'
        BY <2>1, <2>4 DEF HeldInv, OnlyOne
    <2>7. ASSUME faults = 0 PROVE Kept'
        <3>1. Stored /\ marker /\ persistent = latest
            BY <2>1, <2>7 DEF HeldInv, Kept, Stored, Restoring
        <3>2. Stored'
            BY <2>1, <3>1 DEF Stored
        <3>3. persistent # NoData
            BY <3>1 DEF IInv, CountTypeOK, NoData
        <3>4. pc = "copyFrom" => files'[IMAGE].data = latest
            BY <1>0, <1>16, <2>1, <3>1, <3>3 DEF sync_to_ucc, sync_to_ucc_done, Present
        <3>. QED BY <2>1, <3>1, <3>2, <3>4 DEF Kept, Restoring
    <2>. QED BY <2>1, <2>5, <2>6, <2>7 DEF HeldInv
<1>17. CASE rm_marker
    <2>1. /\ pc = "rmMarker" /\ pc' = "mount" /\ local_image = IMAGE /\ Present(IMAGE)
          /\ UNCHANGED <<files, local_image, latest, faults, mounted, IMAGE>>
        BY <1>17 DEF rm_marker, hist, count, IInv, StepInv, Recorded, Copied
    <2>2. \A i : Present(i)' <=> Present(i)
        BY <2>1 DEF Present
    <2>3. Present(local_image) /\ Present(local_image)'
        BY <2>1 DEF Present
    <2>4. mounted' = None
        BY <2>1 DEF HeldInv, Mounting
    <2>5. faults' = 0 => OnlyOne'
        BY <2>1, <2>2 DEF HeldInv, OnlyOne
    <2>6. faults' = 0 => Kept'
        BY <2>1, <2>3 DEF HeldInv, Kept, Restoring
    <2>. QED BY <2>4, <2>5, <2>6 DEF HeldInv
<1>18. CASE mount_image \/ ucc_image_local
    <2>1. /\ UNCHANGED <<disk, latest, faults>> /\ pc \in {"mount", "local"}
          /\ \/ mounted' = None /\ pc' \in {"off", "rollout"}
             \/ mounted' = to_mount /\ Present(to_mount) /\ pc' \in {"rollout", "run"}
        BY <1>18 DEF mount_image, ucc_image_local, failure, PowerOff, hist, count
    <2>2. mounted' # None => pc' \in Mounting /\ Present(mounted')
        BY <2>1 DEF Mounting
    <2>. QED BY <2>1, <2>2, DiskStays DEF disk, Restoring
<1>19. CASE join
    BY <1>19, NewestWritten DEF join, Goto, after_rollout, count, Mounting
<1>20. CASE change_settings
    <2>1. mounted # None
        BY <1>20 DEF change_settings, IInv, StepInv
    <2>. QED BY <1>20, <2>1, NewestWritten DEF change_settings, boot, count, Mounting
<1>. QED BY <1>2, <1>3, <1>4, <1>5, <1>6, <1>7, <1>8, <1>9, <1>10, <1>11, <1>12, <1>13, <1>14,
            <1>15, <1>16, <1>17, <1>18, <1>19, <1>20
         DEF Next, Script, Copy

(* The initial states have it: a client that is installed has its data.    *)
LEMMA InitHeld == Init => HeldInv
<1> SUFFICES ASSUME Init PROVE HeldInv
    OBVIOUS
<1>1. mounted = None /\ pc = "off" /\ marker = FALSE
    BY DEF Init
<1>2. PICK i \in Images, installed \in BOOLEAN :
         /\ local_image = (IF installed THEN i ELSE None)
         /\ latest = (IF installed THEN 1 ELSE Pristine)
         /\ files = [j \in Images |-> IF j = i /\ installed THEN [ver |-> 1, data |-> 1] ELSE NoImage]
    BY DEF Init
<1>3. OnlyOne
    BY <1>1, <1>2 DEF OnlyOne, Present, NoImage
<1>4. Kept
    BY <1>1, <1>2 DEF Kept, Stored, Restoring, Present, NoImage
<1>. QED BY <1>1, <1>3, <1>4 DEF HeldInv

(* Both hold in every reachable state.                                     *)
LEMMA HeldInvariance == Spec => [](IInv /\ HeldInv)
BY InitIInv, NextIInv, InitHeld, NextHeld, PTL DEF Spec

(* Without a failure an update loses no data, for any images and servers   *)
(* and any order of publishing, assigning, joining and changing.           *)
THEOREM NothingForgotten == Spec => []DataRestoredIfNoFault
<1>1. IInv /\ HeldInv => DataRestoredIfNoFault
    BY DEF HeldInv, OnlyOne, Kept, Restoring, Present, DataRestoredIfNoFault, DataRestored
<1>. QED BY HeldInvariance, <1>1, PTL

(* Without a failure no image file is left behind.                         *)
THEOREM NoneLeftBehind == Spec => []OneImageOnDisk
<1>1. IInv /\ HeldInv => OneImageOnDisk
    BY DEF HeldInv, OnlyOne, OneImageOnDisk
<1>. QED BY HeldInvariance, <1>1, PTL
=============================================================================
