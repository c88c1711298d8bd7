-------------------------- MODULE FileSystemProofs --------------------------
(***************************************************************************)
(* Proofs about FileSystem, for every ramdisk, location, size of a word    *)
(* and sizes of reads that the assumptions of that module allow.           *)
(***************************************************************************)
EXTENDS FileSystem, SequenceTheorems, TLAPS

PCs == {"init", "idle", "list", "listed", "found", "eof", "none"}

(* The entry of the root directory with index j. *)
EntryAt(j) == IF j = 0 THEN [name |-> Dev, ino |-> 0] ELSE [name |-> disk[j].name, ino |-> j - 1]

Entries == {EntryAt(j) : j \in 0 .. Len(disk)}
Files == {File(disk[i], i - 1) : i \in 1 .. Len(disk)}

(* What initialize_initrd has made of the disk so far: the headers edited   *)
(* and the nodes made are those of the files in front of Len(root_nodes).   *)
DiskInv ==
    /\ disk \in Disks
    /\ file_headers \in Seq(Header) /\ Len(file_headers) = Len(disk)
    /\ root_nodes \in Seq(Files) /\ Len(root_nodes) <= Len(disk)
    /\ \A i \in 1 .. Len(root_nodes) : root_nodes[i] = File(disk[i], i - 1)
    /\ \A i \in 1 .. Len(disk) :
         /\ file_headers[i].name = disk[i].name
         /\ file_headers[i].length = disk[i].length
         /\ file_headers[i].offset = disk[i].offset + IF i <= Len(root_nodes) THEN LOCATION ELSE 0
    /\ pc # "init" => Len(root_nodes) = Len(disk)

(* How far a listing has come. *)
ListInv ==
    /\ pc \in PCs
    /\ dir \in {initrd_root, initrd_dev} \/ ~ IsDirectory(dir)
    /\ index \in 0 .. Len(disk) + 1
    /\ pc \in {"list", "listed"} =>
         /\ listed \in Seq(Entries) /\ Len(listed) = index
         /\ \A k \in 1 .. index : listed[k] = EntryAt(k - 1)
         /\ dir # initrd_root => index = 0
         /\ dir = initrd_root /\ pc = "listed" => index = Len(disk) + 1

(* Nodes and entries the client holds. *)
NodeInv ==
    /\ node = Null \/ node \in {initrd_root, initrd_dev}
                   \/ \E i \in 1 .. Len(root_nodes) : node = File(disk[i], i - 1)
    /\ dirent.ino \in 0 .. Len(disk)
    /\ ~ fault

(* What was read of a file so far. *)
ReadInv ==
    pc \in {"found", "eof"} => \A i \in 1 .. Len(disk) : node = File(disk[i], i - 1) =>
      /\ got \in Seq(Nat) /\ Len(got) <= disk[i].length
      /\ \A k \in 1 .. Len(got) : got[k] = LOCATION + disk[i].offset + k - 1
      /\ pc = "eof" => Len(got) = disk[i].length

FInv == DiskInv /\ ListInv /\ NodeInv /\ ReadInv /\ ListedIsFound

-----------------------------------------------------------------------------
(* Arithmetic of words *)

LEMMA ModSmall ==
    ASSUME NEW x \in Nat, x < WORD PROVE x % WORD = x
BY DiskAssumption

LEMMA ModMinusOne ==
    ASSUME WORD > 0 PROVE (0 - 1) % WORD = WORD - 1
BY DiskAssumption

(* The two directories and the files are different nodes. *)
LEMMA RootIsNotDev == initrd_root # initrd_dev
<1>1. Len(<<"i", "n", "i", "t", "r", "d">>) # Len(Dev)
    BY DEF Dev
<1>2. <<"i", "n", "i", "t", "r", "d">> # Dev
    BY <1>1
<1> QED BY <1>2 DEF initrd_root, initrd_dev, Directory

LEMMA FileIsNotDirectory ==
    ASSUME NEW header, NEW i
    PROVE  File(header, i) \notin {initrd_root, initrd_dev, Null}
BY DEF File, initrd_root, initrd_dev, Directory, Null

LEMMA DiskType ==
    ASSUME disk \in Disks
    PROVE  /\ disk \in Seq(Header) /\ Len(disk) \in Nat /\ Len(disk) < WORD
           /\ \A i \in 1 .. Len(disk) : /\ disk[i] \in Header
                                        /\ disk[i].offset \in Nat /\ disk[i].length \in Nat
<1>1. disk \in Seq(Header) /\ Len(disk) < WORD
    BY DiskAssumption
<1>2. Len(disk) \in Nat
    BY <1>1, LenProperties
<1>3. \A i \in 1 .. Len(disk) : disk[i] \in Header
    BY <1>1, ElementOfSeq
<1>4. \A h \in Header : h.offset \in Nat /\ h.length \in Nat
    BY DEF Header
<1> QED BY <1>1, <1>2, <1>3, <1>4

-----------------------------------------------------------------------------
(* What one call returns *)

(* initrd_read of a file that is read up to n gives bytes of that file, the *)
(* next ones: at most size, none when the file is read, one at least before.*)
LEMMA ReadsNextPiece ==
    ASSUME DiskInv, Len(root_nodes) = Len(disk),
           NEW i \in 1 .. Len(disk), NEW n \in 0 .. disk[i].length, NEW size \in Sizes
    PROVE  \E m \in Nat :
             /\ initrd_read(File(disk[i], i - 1), n, size)
                  = [k \in 1 .. m |-> LOCATION + disk[i].offset + n + k - 1]
             /\ n + m <= disk[i].length
             /\ m = 0 <=> n = disk[i].length
<1>1. /\ disk[i].offset \in Nat /\ disk[i].length \in Nat
      /\ LOCATION \in Nat /\ size \in Nat /\ size > 0
    BY DiskType, DiskAssumption DEF DiskInv
<1>2. disk[i].offset + LOCATION + disk[i].length + size < WORD
    BY NoWrap DEF DiskInv
<1>3. (n + size) % WORD = n + size
    <2>1. n + size \in Nat /\ n + size < WORD
        BY <1>1, <1>2, DiskAssumption, SMTT(30)
    <2> QED BY <2>1, ModSmall
<1>4. File(disk[i], i - 1).inode + 1 = i
    BY DEF File
<1>5. /\ file_headers[i].length = disk[i].length
      /\ file_headers[i].offset = disk[i].offset + LOCATION
    BY DEF DiskInv
<1> DEFINE m == IF n + size > disk[i].length THEN disk[i].length - n ELSE size
<1>6. m \in Nat /\ n + m <= disk[i].length /\ (m = 0 <=> n = disk[i].length)
    BY <1>1
<1>7. initrd_read(File(disk[i], i - 1), n, size)
        = [k \in 1 .. m |-> file_headers[i].offset + n + k - 1]
    <2>1. ~ (n > file_headers[i].length)
        BY <1>1, <1>5
    <2>2. (IF (n + size) % WORD > file_headers[i].length THEN file_headers[i].length - n ELSE size) = m
        BY <1>3, <1>5
    <2> HIDE DEF m
    <2> QED BY <1>4, <2>1, <2>2 DEF initrd_read
<1>8. [k \in 1 .. m |-> file_headers[i].offset + n + k - 1]
        = [k \in 1 .. m |-> LOCATION + disk[i].offset + n + k - 1]
    BY <1>1, <1>5, <1>6
<1> HIDE DEF m
<1> QED BY <1>6, <1>7, <1>8

(* initrd_readdir gives the entries of the root in order, then null, and    *)
(* null at once for dev, where index - 1 wraps around.                      *)
LEMMA ReadsNextEntry ==
    ASSUME DiskInv, Len(root_nodes) = Len(disk), NEW j \in 0 .. Len(disk) + 1
    PROVE  /\ initrd_readdir(initrd_root, j) = IF j <= Len(disk) THEN EntryAt(j) ELSE None
           /\ j = 0 => initrd_readdir(initrd_dev, j) = None
<1>1. Len(disk) \in Nat /\ Len(disk) < WORD
    BY DiskType DEF DiskInv
<1>2. ASSUME j > 0 PROVE PastEnd(j) <=> j = Len(disk) + 1
    <2>1. j - 1 \in Nat /\ j - 1 < WORD
        BY <1>1, <1>2, DiskAssumption
    <2>2. (j - 1) % WORD = j - 1
        BY <2>1, ModSmall
    <2> QED BY <1>1, <1>2, <2>2 DEF PastEnd
<1>3. ASSUME j = 0 PROVE PastEnd(j)
    BY <1>1, <1>3, ModMinusOne, DiskAssumption DEF PastEnd
<1>4. initrd_readdir(initrd_root, j) = IF j <= Len(disk) THEN EntryAt(j) ELSE None
    <2>1. CASE j = 0
        BY <1>1, <2>1 DEF initrd_readdir, DevEntry, EntryAt
    <2>2. CASE j > 0 /\ j <= Len(disk)
        <3>1. root_nodes[j] = File(disk[j], j - 1)
            BY <2>2 DEF DiskInv
        <3>2. root_nodes[j].name = disk[j].name /\ root_nodes[j].inode = j - 1
            BY <3>1 DEF File
        <3> QED BY <1>1, <1>2, <2>2, <3>2 DEF initrd_readdir, DevEntry, EntryAt
    <2>3. CASE j = Len(disk) + 1
        BY <1>1, <1>2, <2>3 DEF initrd_readdir, DevEntry
    <2> QED BY <1>1, <2>1, <2>2, <2>3
<1>5. j = 0 => initrd_readdir(initrd_dev, j) = None
    BY <1>3, RootIsNotDev DEF initrd_readdir, DevEntry
<1> QED BY <1>4, <1>5

(* initrd_finddir returns null, dev or the node of a file.                  *)
LEMMA FindsNodes ==
    ASSUME DiskInv, NEW d, NEW nm, NEW nd \in initrd_finddir(d, nm)
    PROVE  \/ nd = Null \/ nd = initrd_dev
           \/ \E i \in 1 .. Len(root_nodes) : nd = File(disk[i], i - 1)
BY DEF initrd_finddir, DiskInv

(* On a disk with names that can be told apart it returns the node of the   *)
(* entry.                                                                   *)
LEMMA FindsTheEntry ==
    ASSUME DiskInv, Len(root_nodes) = Len(disk), Tellable,
           NEW j \in 0 .. Len(disk), NEW nd \in initrd_finddir(initrd_root, EntryAt(j).name)
    PROVE  nd # Null /\ nd.name = EntryAt(j).name /\ nd.inode = EntryAt(j).ino
<1>1. Len(disk) \in Nat
    BY DiskType DEF DiskInv
<1>2. CASE j = 0
    <2>1. Len(Dev) = 3 /\ SurelyEqual(Dev, Dev)
        BY DEF SurelyEqual, Dev
    <2>2. EntryAt(j).name = Dev /\ EntryAt(j).ino = 0
        BY <1>2 DEF EntryAt
    <2>3. nd = initrd_dev
        BY <2>1, <2>2 DEF initrd_finddir, DevFirst
    <2>4. initrd_dev # Null /\ initrd_dev.name = Dev /\ initrd_dev.inode = 0
        BY DEF initrd_dev, Directory, Null
    <2> QED BY <2>2, <2>3, <2>4
<1>3. CASE j > 0
    <2>1. j \in 1 .. Len(disk) /\ EntryAt(j).name = disk[j].name /\ EntryAt(j).ino = j - 1
        BY <1>1, <1>3 DEF EntryAt
    <2>2. \A i \in 1 .. Len(disk) : root_nodes[i].name = disk[i].name
        <3>1. \A i \in 1 .. Len(disk) : root_nodes[i] = File(disk[i], i - 1)
            BY DEF DiskInv
        <3>2. \A h, k : File(h, k).name = h.name
            BY DEF File
        <3> QED BY <3>1, <3>2
    <2>3. SurelyEqual(disk[j].name, disk[j].name)
        BY <2>1 DEF Tellable, SurelyEqual
    <2>4. ~ DevFirst(initrd_root, disk[j].name)
        BY <2>1 DEF Tellable, DevFirst, SurelyEqual
    <2>5. \A i \in 1 .. Len(disk) : PerhapsEqual(disk[j].name, disk[i].name) => i = j
        BY <2>1 DEF Tellable, PerhapsEqual
    <2>6. nd = root_nodes[j]
        BY <2>1, <2>2, <2>3, <2>4, <2>5 DEF initrd_finddir
    <2>7. nd = File(disk[j], j - 1)
        BY <2>1, <2>6 DEF DiskInv
    <2>8. nd.name = disk[j].name /\ nd.inode = j - 1
        BY <2>7 DEF File
    <2> QED BY <2>1, <2>7, <2>8, FileIsNotDirectory
<1> QED BY <1>1, <1>2, <1>3
-----------------------------------------------------------------------------
(* The invariant holds initially and every action preserves it *)

LEMMA InitFInv == Init => FInv
<1> SUFFICES ASSUME Init PROVE FInv
    OBVIOUS
<1>1. disk \in Seq(Header) /\ Len(disk) \in Nat
    BY DiskType DEF Init
<1>2. DiskInv
    <2>1. root_nodes \in Seq(Files) /\ Len(root_nodes) = 0
        BY DEF Init
    <2>2. \A i \in 1 .. Len(disk) : disk[i].offset \in Nat
        BY DiskType DEF Init
    <2> QED BY <1>1, <2>1, <2>2 DEF Init, DiskInv
<1>3. ListInv
    BY <1>1 DEF Init, ListInv, PCs
<1>4. NodeInv /\ ReadInv /\ ListedIsFound
    BY <1>1 DEF Init, NodeInv, ReadInv, ListedIsFound
<1> QED BY <1>2, <1>3, <1>4 DEF FInv

(* The parts about the disk and the nodes are about variables that only     *)
(* initialize_initrd changes.                                               *)
LEMMA DiskStays ==
    ASSUME DiskInv, UNCHANGED <<disk, file_headers, root_nodes>>, pc' # "init", pc # "init"
    PROVE  DiskInv'
BY DEF DiskInv, Files

LEMMA InitFileStep ==
    ASSUME FInv, InitFile PROVE FInv'
<1> DEFINE i == Len(root_nodes) + 1
<1>1. /\ disk \in Disks /\ disk \in Seq(Header) /\ Len(disk) \in Nat
      /\ i \in 1 .. Len(disk) /\ Len(root_nodes) \in Nat
      /\ \A k \in 1 .. Len(disk) : disk[k].offset \in Nat
    BY DiskType, LenProperties DEF FInv, DiskInv, InitFile
<1>2. /\ disk' = disk /\ pc = "init" /\ pc' = pc /\ dir' = dir /\ index' = index
      /\ listed' = listed /\ node' = node /\ sought' = sought /\ got' = got
      /\ dirent' = dirent /\ fault' = fault
    BY DEF InitFile, client
<1>3. /\ file_headers' = [file_headers EXCEPT ![i].offset = @ + LOCATION]
      /\ root_nodes' = Append(root_nodes, File(file_headers[i], i - 1))
    BY DEF InitFile
<1>4. file_headers \in Seq(Header) /\ Len(file_headers) = Len(disk) /\ root_nodes \in Seq(Files)
    BY DEF FInv, DiskInv
<1>5. File(file_headers[i], i - 1) = File(disk[i], i - 1)
    BY <1>1 DEF FInv, DiskInv, File
<1>6. File(disk[i], i - 1) \in Files
    BY <1>1 DEF Files
<1>7. root_nodes' \in Seq(Files) /\ Len(root_nodes') = i
    BY <1>3, <1>4, <1>5, <1>6, AppendProperties
<1>8. \A k \in 1 .. i : root_nodes'[k] = File(disk[k], k - 1)
    <2> TAKE k \in 1 .. i
    <2>1. root_nodes'[k] = IF k <= Len(root_nodes) THEN root_nodes[k] ELSE File(disk[i], i - 1)
        BY <1>1, <1>3, <1>4, <1>5, <1>6, AppendProperties
    <2>2. k <= Len(root_nodes) => root_nodes[k] = File(disk[k], k - 1)
        BY <1>1 DEF FInv, DiskInv
    <2> QED BY <1>1, <2>1, <2>2
<1>9. file_headers[i] \in Header /\ file_headers[i].offset + LOCATION \in Nat
    <2>1. file_headers[i] \in Header
        BY <1>1, <1>4, ElementOfSeq
    <2> QED BY <2>1, DiskAssumption DEF Header
<1>10. [file_headers[i] EXCEPT !.offset = @ + LOCATION] \in Header
    BY <1>9 DEF Header
<1>11. file_headers' \in Seq(Header) /\ Len(file_headers') = Len(disk)
    BY <1>1, <1>3, <1>4, <1>10, ExceptSeq
<1>12. \A k \in 1 .. Len(disk) :
         /\ file_headers'[k].name = disk[k].name
         /\ file_headers'[k].length = disk[k].length
         /\ file_headers'[k].offset = disk[k].offset + IF k <= i THEN LOCATION ELSE 0
    <2> TAKE k \in 1 .. Len(disk)
    <2>1. /\ file_headers[k].name = disk[k].name
          /\ file_headers[k].length = disk[k].length
          /\ file_headers[k].offset = disk[k].offset + IF k <= Len(root_nodes) THEN LOCATION ELSE 0
        BY DEF FInv, DiskInv
    <2>2. file_headers[k] \in Header
        BY <1>4, ElementOfSeq
    <2>3. CASE k = i
        <3>1. file_headers'[k] = [file_headers[k] EXCEPT !.offset = @ + LOCATION]
            BY <1>1, <1>3, <1>4, <2>3
        <3>2. /\ file_headers'[k].name = file_headers[k].name
              /\ file_headers'[k].length = file_headers[k].length
              /\ file_headers'[k].offset = file_headers[k].offset + LOCATION
            BY <2>2, <3>1 DEF Header
        <3> QED BY <1>1, <2>1, <2>3, <3>2, DiskAssumption
    <2>4. CASE k # i
        <3>1. file_headers'[k] = file_headers[k]
            BY <1>1, <1>3, <1>4, <2>4
        <3> QED BY <1>1, <2>1, <2>4, <3>1
    <2> QED BY <2>3, <2>4
<1>13. DiskInv'
    BY <1>1, <1>2, <1>7, <1>8, <1>11, <1>12 DEF DiskInv, Files
<1>14. ListInv' /\ ReadInv' /\ ListedIsFound'
    BY <1>2 DEF FInv, ListInv, ReadInv, ListedIsFound
<1>15. NodeInv'
    <2>1. 1 .. Len(root_nodes) \subseteq 1 .. Len(root_nodes')
        BY <1>1, <1>3, <1>7
    <2> QED BY <1>2, <2>1 DEF FInv, NodeInv
<1> QED BY <1>13, <1>14, <1>15 DEF FInv

LEMMA InitDoneStep ==
    ASSUME FInv, InitDone PROVE FInv'
<1>1. /\ pc = "init" /\ pc' = "idle" /\ Len(root_nodes) = Len(disk)
      /\ UNCHANGED <<disk, file_headers, root_nodes, dirent, dir, index, listed, node, sought, got, fault>>
    BY DEF InitDone
<1>2. DiskInv'
    BY <1>1 DEF FInv, DiskInv, Files
<1>3. ListInv' /\ NodeInv' /\ ReadInv' /\ ListedIsFound'
    BY <1>1 DEF FInv, ListInv, NodeInv, ReadInv, ListedIsFound, PCs
<1> QED BY <1>2, <1>3 DEF FInv

(* The node of a file is no directory; the other two are. *)
LEMMA NodeKinds ==
    ASSUME DiskInv
    PROVE  /\ \A d \in Nodes : d \in {initrd_root, initrd_dev} \/ ~ IsDirectory(d)
           /\ \A d \in {initrd_root, initrd_dev} : IsDirectory(d) /\ "finddir" \in d.callbacks
<1>1. \A h, k : File(h, k).flags = "file"
    BY DEF File
<1>2. \A d \in ToSet(root_nodes) : d.flags = "file"
    BY <1>1 DEF ToSet, DiskInv
<1> QED BY <1>2 DEF Nodes, IsDirectory, initrd_root, initrd_dev, Directory

LEMMA OpenDirStep ==
    ASSUME FInv, NEW d \in Nodes, OpenDir(d) PROVE FInv'
<1>1. /\ pc = "idle" /\ pc' = "list" /\ dir' = d /\ index' = 0 /\ listed' = << >>
      /\ node' = Null /\ UNCHANGED <<disk, file_headers, root_nodes, dirent, fault>>
    BY DEF OpenDir
<1>2. DiskInv'
    BY <1>1, DiskStays DEF FInv
<1>3. ListInv'
    <2>1. Len(disk) \in Nat
        BY DiskType DEF FInv, DiskInv
    <2>2. listed' \in Seq(Entries) /\ Len(listed') = 0
        BY <1>1
    <2>3. d \in {initrd_root, initrd_dev} \/ ~ IsDirectory(d)
        BY NodeKinds DEF FInv
    <2> QED BY <1>1, <2>1, <2>2, <2>3 DEF ListInv, PCs
<1>4. NodeInv' /\ ReadInv' /\ ListedIsFound'
    BY <1>1 DEF FInv, NodeInv, ReadInv, ListedIsFound
<1> QED BY <1>2, <1>3, <1>4 DEF FInv

(* The client goes back, or finds that there is nothing to read. *)
LEMMA ClientStep ==
    ASSUME FInv, read_fs_none \/ Again PROVE FInv'
<1>1. /\ pc # "init" /\ pc' \in {"idle", "none"}
      /\ UNCHANGED <<disk, file_headers, root_nodes, dirent, dir, index, listed, node, sought, got, fault>>
    BY DEF read_fs_none, Again
<1>2. DiskInv'
    BY <1>1, DiskStays DEF FInv
<1>3. ListInv' /\ NodeInv' /\ ReadInv' /\ ListedIsFound'
    BY <1>1 DEF FInv, ListInv, NodeInv, ReadInv, ListedIsFound, PCs
<1> QED BY <1>2, <1>3 DEF FInv

(* A node with the write callback does not exist, so open_fs, which tests   *)
(* it and calls another, calls nothing.                                     *)
LEMMA OtherCallStep ==
    ASSUME FInv, NEW f \in {"open", "write", "close"}, OtherCall(f) PROVE FInv'
<1>1. /\ pc = "found" /\ node # Null
      /\ UNCHANGED <<disk, file_headers, root_nodes, dirent, client>>
    BY DEF OtherCall
<1>2. node.callbacks \subseteq {"read", "readdir", "finddir"}
    BY <1>1 DEF FInv, NodeInv, File, initrd_root, initrd_dev, Directory
<1>3. Tested[f] \in {"write", "close"}
    BY DEF Tested
<1>4. fault' = fault
    BY <1>2, <1>3 DEF OtherCall
<1>5. DiskInv'
    BY <1>1, DiskStays DEF FInv, client
<1>6. ListInv' /\ NodeInv' /\ ReadInv' /\ ListedIsFound'
    BY <1>1, <1>4 DEF FInv, ListInv, NodeInv, ReadInv, ListedIsFound, client, Entries, EntryAt, Tellable
<1> QED BY <1>5, <1>6 DEF FInv

LEMMA ReaddirStep ==
    ASSUME FInv, readdir_fs PROVE FInv'
<1> DEFINE entry == IF IsDirectory(dir) THEN initrd_readdir(dir, index) ELSE None
<1>1. /\ pc = "list" /\ UNCHANGED <<disk, file_headers, root_nodes, dir, node, sought, got>>
      /\ IF entry = None
         THEN pc' = "listed" /\ UNCHANGED <<dirent, index, listed>>
         ELSE /\ dirent' = entry /\ listed' = Append(listed, entry)
              /\ index' = index + 1 /\ pc' = pc
    BY DEF readdir_fs
<1>2. ~ fault'
    BY DEF readdir_fs, Calls, IsDirectory, FInv, NodeInv
<1>3. /\ Len(disk) \in Nat /\ Len(root_nodes) = Len(disk) /\ DiskInv
    BY <1>1, DiskType DEF FInv, DiskInv
<1>4. /\ dir \in {initrd_root, initrd_dev} \/ ~ IsDirectory(dir)
      /\ index \in 0 .. Len(disk) + 1
      /\ listed \in Seq(Entries) /\ Len(listed) = index
      /\ \A k \in 1 .. index : listed[k] = EntryAt(k - 1)
      /\ dir # initrd_root => index = 0
    BY <1>1 DEF FInv, ListInv
<1>5. DiskInv'
    <2>1. pc' # "init"
        BY <1>1
    <2> QED BY <1>1, <1>3, <2>1, DiskStays
<1>6. dir # initrd_root => entry = None
    BY <1>3, <1>4, ReadsNextEntry
<1>7. dir = initrd_root => entry = IF index <= Len(disk) THEN EntryAt(index) ELSE None
    BY <1>3, <1>4, ReadsNextEntry, NodeKinds
<1>8. \A j \in 0 .. Len(disk) : /\ EntryAt(j) \in Entries
                                /\ EntryAt(j).ino \in 0 .. Len(disk) /\ EntryAt(j) # None
    <2> TAKE j \in 0 .. Len(disk)
    <2>1. EntryAt(j) \in Entries
        BY DEF Entries
    <2>2. EntryAt(j).ino = IF j = 0 THEN 0 ELSE j - 1
        BY DEF EntryAt
    <2>3. None.ino = -1
        BY DEF None
    <2> QED BY <1>3, <2>1, <2>2, <2>3
<1>9. (\A j : EntryAt(j)' = EntryAt(j)) /\ Entries' = Entries
    BY <1>1 DEF EntryAt, Entries
<1>10. CASE entry = None
    <2>1. dir = initrd_root => index = Len(disk) + 1
        BY <1>3, <1>4, <1>7, <1>8, <1>10
    <2>2. pc' = "listed" /\ UNCHANGED <<dirent, index, listed>>
        BY <1>1, <1>10
    <2>3. ListInv'
        BY <1>1, <1>3, <1>4, <1>9, <2>1, <2>2 DEF ListInv, PCs
    <2>4. NodeInv' /\ ReadInv' /\ ListedIsFound'
        BY <1>1, <1>2, <2>2 DEF FInv, NodeInv, ReadInv, ListedIsFound
    <2> QED BY <1>5, <2>3, <2>4 DEF FInv
<1>11. CASE entry # None
    <2>1. dir = initrd_root /\ index \in 0 .. Len(disk) /\ entry = EntryAt(index)
        BY <1>3, <1>4, <1>6, <1>7, <1>11
    <2>2. /\ dirent' = EntryAt(index) /\ listed' = Append(listed, EntryAt(index))
          /\ index' = index + 1 /\ pc' = "list"
        BY <1>1, <1>11, <2>1
    <2>3. /\ listed' \in Seq(Entries) /\ Len(listed') = index + 1
          /\ \A k \in 1 .. index : listed'[k] = listed[k]
          /\ listed'[index + 1] = EntryAt(index)
        BY <1>4, <1>8, <2>1, <2>2, AppendProperties
    <2>4. \A k \in 1 .. index + 1 : listed'[k] = EntryAt(k - 1)
        <3> TAKE k \in 1 .. index + 1
        <3>1. CASE k = index + 1
            BY <1>4, <2>3, <3>1
        <3>2. CASE k \in 1 .. index
            BY <1>4, <2>3, <3>2
        <3> QED BY <1>4, <3>1, <3>2
    <2>5. ListInv'
        BY <1>1, <1>3, <1>9, <2>1, <2>2, <2>3, <2>4, RootIsNotDev DEF ListInv, PCs
    <2>6. NodeInv' /\ ReadInv' /\ ListedIsFound'
        BY <1>1, <1>2, <1>8, <2>1, <2>2 DEF FInv, NodeInv, ReadInv, ListedIsFound
    <2> QED BY <1>5, <2>5, <2>6 DEF FInv
<1> QED BY <1>10, <1>11

LEMMA FinddirStep ==
    ASSUME FInv, NEW d \in Nodes, NEW k \in 1 .. Len(listed),
           finddir_fs(d, listed[k])
    PROVE  FInv'
<1>1. /\ pc = "listed" /\ pc' = "found" /\ dir' = d /\ sought' = listed[k] /\ got' = << >>
      /\ node' \in IF IsDirectory(d) THEN initrd_finddir(d, listed[k].name) ELSE {Null}
      /\ UNCHANGED <<disk, file_headers, root_nodes, dirent, index, listed>>
    BY DEF finddir_fs
<1>11. /\ d \in {initrd_root, initrd_dev} \/ ~ IsDirectory(d)
       /\ d \in {initrd_root, initrd_dev} => IsDirectory(d) /\ "finddir" \in d.callbacks
    BY NodeKinds DEF FInv
<1>2. ~ fault'
    <2>1. IsDirectory(d) => "finddir" \in d.callbacks
        BY <1>11
    <2> QED BY <2>1 DEF finddir_fs, Calls, FInv, NodeInv
<1>3. /\ Len(disk) \in Nat /\ Len(root_nodes) = Len(disk) /\ DiskInv
      /\ \A i \in 1 .. Len(disk) : disk[i].length \in Nat
    BY <1>1, DiskType DEF FInv, DiskInv
<1>4. index \in 0 .. Len(disk) + 1 /\ k \in 1 .. index /\ listed[k] = EntryAt(k - 1)
    BY <1>1 DEF FInv, ListInv
<1>5. k - 1 \in 0 .. Len(disk)
    BY <1>3, <1>4
<1>6. DiskInv'
    <2>1. pc # "init" /\ pc' # "init"
        BY <1>1
    <2> QED BY <1>1, <1>3, <2>1, DiskStays
<1>7. ListInv'
    BY <1>1, <1>4, <1>11 DEF ListInv, PCs
<1>8. NodeInv'
    <2>1. \/ node' = Null \/ node' = initrd_dev
          \/ \E i \in 1 .. Len(root_nodes) : node' = File(disk[i], i - 1)
        BY <1>1, <1>3, FindsNodes
    <2> QED BY <1>1, <1>2, <2>1 DEF FInv, NodeInv
<1>9. ReadInv'
    <2>1. got' \in Seq(Nat) /\ Len(got') = 0
        BY <1>1
    <2> QED BY <1>1, <1>3, <2>1 DEF ReadInv
<1>10. ListedIsFound'
    <2> SUFFICES ASSUME d = initrd_root, Tellable
                 PROVE  node' # Null /\ node'.name = listed[k].name /\ node'.inode = listed[k].ino
        BY <1>1 DEF ListedIsFound, Tellable
    <2>1. node' \in initrd_finddir(initrd_root, EntryAt(k - 1).name)
        BY <1>1, <1>4, <1>11
    <2> QED BY <1>3, <1>4, <1>5, <2>1, FindsTheEntry
<1> QED BY <1>6, <1>7, <1>8, <1>9, <1>10 DEF FInv

LEMMA ReadStep ==
    ASSUME FInv, NEW size \in Sizes, read_fs(size) PROVE FInv'
<1> DEFINE piece == initrd_read(node, Len(got), size)
<1>1. /\ pc = "found" /\ node # Null /\ "read" \in node.callbacks
      /\ got' = got \o piece /\ pc' = IF piece = << >> THEN "eof" ELSE pc
      /\ UNCHANGED <<disk, file_headers, root_nodes, dirent, dir, index, listed, node, sought>>
    BY DEF read_fs, Reads
<1>2. ~ fault'
    BY <1>1 DEF read_fs, Calls, FInv, NodeInv
<1>3. DiskInv /\ Len(root_nodes) = Len(disk) /\ Len(disk) \in Nat
    BY <1>1, DiskType DEF FInv, DiskInv
<1>4. pc' \in {"found", "eof"}
    BY <1>1
<1>5. DiskInv'
    <2>1. pc # "init" /\ pc' # "init"
        BY <1>1
    <2> QED BY <1>1, <1>3, <2>1, DiskStays
<1>6. ListInv' /\ NodeInv'
    BY <1>1, <1>2, <1>4 DEF FInv, ListInv, NodeInv, PCs
<1>7. ListedIsFound'
    BY <1>1, <1>4 DEF FInv, ListedIsFound, Tellable
<1>8. ReadInv'
    <2> SUFFICES ASSUME NEW i \in 1 .. Len(disk), node = File(disk[i], i - 1)
                 PROVE  /\ got' \in Seq(Nat) /\ Len(got') <= disk[i].length
                        /\ \A k \in 1 .. Len(got') : got'[k] = LOCATION + disk[i].offset + k - 1
                        /\ pc' = "eof" => Len(got') = disk[i].length
        BY <1>1 DEF ReadInv
    <2>1. /\ disk[i].offset \in Nat /\ disk[i].length \in Nat /\ LOCATION \in Nat
        BY <1>3, DiskType, DiskAssumption DEF DiskInv
    <2>2. /\ got \in Seq(Nat) /\ Len(got) <= disk[i].length
          /\ \A k \in 1 .. Len(got) : got[k] = LOCATION + disk[i].offset + k - 1
        BY <1>1 DEF FInv, ReadInv
    <2>3. Len(got) \in 0 .. disk[i].length
        BY <2>1, <2>2, LenProperties
    <2>4. PICK m \in Nat :
             /\ piece = [k \in 1 .. m |-> LOCATION + disk[i].offset + Len(got) + k - 1]
             /\ Len(got) + m <= disk[i].length
             /\ m = 0 <=> Len(got) = disk[i].length
        BY <1>3, <2>3, ReadsNextPiece
    <2> HIDE DEF piece
    <2>5. piece \in Seq(Nat) /\ Len(piece) = m
        <3>1. \A k \in 1 .. m : LOCATION + disk[i].offset + Len(got) + k - 1 \in Nat
            BY <2>1, <2>3
        <3>2. piece \in [1 .. m -> Nat]
            BY <2>4, <3>1
        <3> QED BY <3>2
    <2>6. got' \in Seq(Nat) /\ Len(got') = Len(got) + m
        BY <1>1, <2>2, <2>5, ConcatProperties
    <2>7. \A k \in 1 .. Len(got') : got'[k] = LOCATION + disk[i].offset + k - 1
        <3> TAKE k \in 1 .. Len(got')
        <3>1. got'[k] = IF k <= Len(got) THEN got[k] ELSE piece[k - Len(got)]
            BY <1>1, <2>2, <2>5, <2>6, ConcatProperties
        <3>2. CASE k <= Len(got)
            BY <2>2, <2>3, <3>1, <3>2
        <3>3. CASE k > Len(got)
            <4>1. k - Len(got) \in 1 .. m
                BY <2>3, <2>6, <3>3
            <4>2. piece[k - Len(got)] = LOCATION + disk[i].offset + Len(got) + (k - Len(got)) - 1
                BY <2>4, <4>1
            <4> QED BY <2>1, <2>3, <3>1, <3>3, <4>2
        <3> QED BY <2>3, <3>2, <3>3
    <2>8. pc' = "eof" => Len(got') = disk[i].length
        <3> SUFFICES ASSUME pc' = "eof" PROVE Len(got') = disk[i].length
            OBVIOUS
        <3>1. piece = << >>
            BY <1>1
        <3>2. m = 0
            BY <2>5, <3>1
        <3> QED BY <2>3, <2>4, <2>6, <3>2
    <2> QED BY <2>3, <2>4, <2>6, <2>7, <2>8
<1> QED BY <1>5, <1>6, <1>7, <1>8 DEF FInv

LEMMA FInvStep == FInv /\ [Next]_vars => FInv'
<1> SUFFICES ASSUME FInv, [Next]_vars PROVE FInv'
    OBVIOUS
<1>1. CASE UNCHANGED vars
    BY <1>1 DEF vars, client, FInv, DiskInv, Files, ListInv, Entries, EntryAt, NodeInv, ReadInv,
                ListedIsFound, Tellable
<1>2. CASE Next
    BY <1>2, InitFileStep, InitDoneStep, OpenDirStep, ClientStep, OtherCallStep, ReaddirStep,
       FinddirStep, ReadStep DEF Next
<1> QED BY <1>1, <1>2

-----------------------------------------------------------------------------
(* Theorems *)

LEMMA FileSystemInvariant == Spec => []FInv
BY InitFInv, FInvStep, PTL DEF Spec

(* A listing asks for no index behind the end, and fs.c calls through no    *)
(* null pointer of a node of this file system.                              *)
THEOREM FileSystemType == Spec => []TypeOK
<1>1. FInv => TypeOK
    <2> SUFFICES ASSUME FInv PROVE TypeOK
        OBVIOUS
    <2>1. node \in Nodes \cup {Null}
        <3>1. \A i \in 1 .. Len(root_nodes) : root_nodes[i] \in ToSet(root_nodes)
            BY DEF ToSet, FInv, DiskInv
        <3> QED BY <3>1 DEF Nodes, FInv, NodeInv, DiskInv
    <2> QED BY <2>1 DEF TypeOK, FInv, DiskInv, ListInv, NodeInv
<1> QED BY <1>1, FileSystemInvariant, PTL

(* Every listing that came to its end is complete and in order.             *)
THEOREM ListingIsComplete == Spec => []ListingComplete
<1>1. FInv => ListingComplete
    <2> SUFFICES ASSUME FInv, pc = "listed"
                 PROVE  IF dir # initrd_root THEN listed = << >>
                        ELSE listed = <<[name |-> Dev, ino |-> 0]>>
                              \o [i \in 1 .. Len(disk) |-> [name |-> disk[i].name, ino |-> i - 1]]
        BY DEF ListingComplete
    <2> DEFINE files == [i \in 1 .. Len(disk) |-> [name |-> disk[i].name, ino |-> i - 1]]
               all == <<[name |-> Dev, ino |-> 0]>> \o files
    <2>1. Len(disk) \in Nat
        BY DiskType DEF FInv, DiskInv
    <2>2. /\ listed \in Seq(Entries) /\ Len(listed) = index
          /\ \A k \in 1 .. index : listed[k] = EntryAt(k - 1)
          /\ dir # initrd_root => index = 0
          /\ dir = initrd_root => index = Len(disk) + 1
        BY DEF FInv, ListInv
    <2>3. CASE dir # initrd_root
        BY <2>2, <2>3, EmptySeq
    <2>4. CASE dir = initrd_root
        <3>1. <<[name |-> Dev, ino |-> 0]>> \in Seq(Entries)
            <4>1. [name |-> Dev, ino |-> 0] \in Entries
                BY <2>1 DEF Entries, EntryAt
            <4> QED BY <4>1
        <3>2. files \in Seq(Entries) /\ Len(files) = Len(disk)
            <4>1. \A i \in 1 .. Len(disk) : [name |-> disk[i].name, ino |-> i - 1] \in Entries
                <5> TAKE i \in 1 .. Len(disk)
                <5>1. EntryAt(i) = [name |-> disk[i].name, ino |-> i - 1] /\ i \in 0 .. Len(disk)
                    BY <2>1 DEF EntryAt
                <5> QED BY <5>1 DEF Entries
            <4> QED BY <2>1, <4>1
        <3>3. all \in Seq(Entries) /\ Len(all) = Len(disk) + 1
            BY <2>1, <3>1, <3>2, ConcatProperties
        <3>4. \A k \in 1 .. Len(disk) + 1 : all[k] = EntryAt(k - 1)
            <4> TAKE k \in 1 .. Len(disk) + 1
            <4>1. all[k] = IF k <= 1 THEN [name |-> Dev, ino |-> 0] ELSE files[k - 1]
                BY <2>1, <3>1, <3>2, ConcatProperties
            <4> QED BY <2>1, <4>1 DEF EntryAt
        <3>5. listed = all
            <4> HIDE DEF all
            <4> QED BY <2>2, <2>4, <3>3, <3>4, SeqEqual
        <3> QED BY <2>4, <3>5
    <2> QED BY <2>3, <2>4
<1> QED BY <1>1, FileSystemInvariant, PTL

(* On a disk whose names differ in their first four bytes, the lookup of a  *)
(* listed name returns the node of that entry.                              *)
THEOREM WhatIsListedIsFound == Spec => []ListedIsFound
<1>1. FInv => ListedIsFound
    BY DEF FInv
<1> QED BY <1>1, FileSystemInvariant, PTL

(* Reads of any sizes put together are the file.                            *)
THEOREM PiecesAreTheFile == Spec => []PiecesMakeTheFile
<1>1. FInv => PiecesMakeTheFile
    <2> SUFFICES ASSUME FInv, pc \in {"found", "eof"}, node.flags = "file"
                 PROVE  LET f == disk[node.inode + 1]
                        IN  /\ Len(got) <= f.length
                            /\ \A i \in 1 .. Len(got) : got[i] = LOCATION + f.offset + i - 1
                            /\ pc = "eof" => Len(got) = f.length
        BY DEF PiecesMakeTheFile
    <2>1. node # Null /\ node \notin {initrd_root, initrd_dev}
        BY DEF Null, initrd_root, initrd_dev, Directory
    <2>2. PICK i \in 1 .. Len(root_nodes) : node = File(disk[i], i - 1)
        BY <2>1 DEF FInv, NodeInv
    <2>3. i \in 1 .. Len(disk) /\ node.inode + 1 = i
        BY <2>2 DEF FInv, DiskInv, File
    <2> QED BY <2>2, <2>3 DEF FInv, ReadInv
<1> QED BY <1>1, FileSystemInvariant, PTL
=============================================================================
