----------------------------- MODULE FileSystem -----------------------------
(***************************************************************************)
(* The virtual file system (fs.c) on top of the initial ramdisk (initrd.c),*)
(* with the string functions of util.c, and a client that lists            *)
(* directories, looks names up and reads files piece by piece.             *)
(*                                                                         *)
(* A name is the sequence of its characters.  What memory holds is told by *)
(* addresses: the byte at an address is that address.  The kernel at this  *)
(* commit does not link initrd.c.                                          *)
(***************************************************************************)
EXTENDS Integers, Sequences, FiniteSets, SequencesExt

CONSTANTS WORD,        \* 2^32
          LOCATION,    \* where the ramdisk was loaded
          Disks,       \* file headers: sequences of [name, offset, length]
          Sizes        \* how much the client reads at a time

Header == [name : Seq(STRING), offset : Nat, length : Nat]

ASSUME DiskAssumption ==
    /\ WORD \in Nat /\ LOCATION \in Nat /\ Sizes \subseteq Nat \ {0}
    /\ \A d \in Disks : d \in Seq(Header) /\ Len(d) < WORD
ASSUME NoWrap ==
    \A d \in Disks : \A i \in 1 .. Len(d) : \A s \in Sizes :
        d[i].offset + LOCATION + d[i].length + s < WORD

VARIABLES
    disk,          \* the ramdisk as it was loaded
    file_headers,  \* the same in memory, where initialize_initrd edits it
    root_nodes,    \* the nodes of the files
    dirent,        \* the one struct dirent readdir returns a pointer to
    pc,            \* "init" in initialize_initrd's loop, then the client's state
    dir, index,    \* a listing: the directory and the next index
    listed,        \* copies of the entries
    node,          \* the node looked up, and for which entry
    sought,
    got,           \* what was read of it
    fault          \* a null function pointer was called

client == <<pc, dir, index, listed, node, sought, got>>
vars == <<disk, file_headers, root_nodes, dirent, client, fault>>

(* Null pointers to an entry and to a node. *)
None == [name |-> << >>, ino |-> -1]
Null == [name |-> << >>, flags |-> "null", inode |-> 0, length |-> 0, callbacks |-> {}]
Dev == <<"d", "e", "v">>

-----------------------------------------------------------------------------
(* Nodes: which callbacks they have *)

Directory(nm) == [name |-> nm, flags |-> "directory", inode |-> 0, length |-> 0,
                  callbacks |-> {"readdir", "finddir"}]
initrd_root == Directory(<<"i", "n", "i", "t", "r", "d">>)
initrd_dev  == Directory(Dev)

File(header, i) == [name |-> header.name, flags |-> "file", inode |-> i, length |-> header.length,
                    callbacks |-> {"read"}]

Nodes == {initrd_root, initrd_dev} \cup ToSet(root_nodes)

-----------------------------------------------------------------------------
(* util.c *)

(* strcmp compares the bytes of a pointer: four, also those that follow the *)
(* terminator.                                                              *)
FirstFour(s) == IF Len(s) < 4 THEN Append(s, "nul") ELSE SubSeq(s, 1, 4)

(* Equal for certain, and equal if the bytes behind the terminators are.    *)
SurelyEqual(s, t) == Len(s) >= 3 /\ FirstFour(s) = FirstFour(t)
PerhapsEqual(s, t) == FirstFour(s) = FirstFour(t)

-----------------------------------------------------------------------------
(* initrd.c *)

(* Slip: the word behind the length is given out too. *)
initrd_read_past(nd, offset, size) ==
    LET header == file_headers[nd.inode + 1]
        n == IF (offset + size) % WORD > header.length + 1 THEN header.length + 1 - offset ELSE size
    IN  IF offset > header.length THEN << >> ELSE [i \in 1 .. n |-> header.offset + offset + i - 1]

(* The bytes copied to the buffer; their number is returned.                *)
initrd_read(nd, offset, size) ==
    LET header == file_headers[nd.inode + 1]
        n == IF (offset + size) % WORD > header.length THEN header.length - offset ELSE size
    IN  IF offset > header.length THEN << >> ELSE [i \in 1 .. n |-> header.offset + offset + i - 1]

(* index - 1 in unsigned arithmetic *)
PastEnd(i) == (i - 1) % WORD >= Len(root_nodes)

(* Slips: every directory begins with dev; the root has nothing else. *)
DevEntryAlways(nd, i) == i = 0
DevEntryOnly(nd, i) == nd = initrd_root

DevEntry(nd, i) == nd = initrd_root /\ i = 0

(* The entry put in dirent, or null.                                        *)
initrd_readdir(nd, i) ==
    IF DevEntry(nd, i) THEN [name |-> Dev, ino |-> 0]
    ELSE IF PastEnd(i) THEN None
    ELSE [name |-> root_nodes[i].name, ino |-> root_nodes[i].inode]

(* Slip: dev is not looked for. *)
DevFirstNot(nd, name) == FALSE

DevFirst(nd, name) == nd = initrd_root /\ SurelyEqual(name, Dev)

(* The nodes that may be returned: the first for which strcmp returns 0.    *)
initrd_finddir(nd, name) ==
    IF DevFirst(nd, name) THEN {initrd_dev}
    ELSE {root_nodes[i] : i \in {i \in 1 .. Len(root_nodes) :
             /\ PerhapsEqual(name, root_nodes[i].name)
             /\ \A j \in 1 .. i - 1 : ~ SurelyEqual(name, root_nodes[j].name)}}
         \cup IF \E i \in 1 .. Len(root_nodes) : SurelyEqual(name, root_nodes[i].name)
              THEN {} ELSE {Null}

Init ==
    /\ disk \in Disks /\ file_headers = disk
    /\ root_nodes = << >>
    /\ dirent = [name |-> << >>, ino |-> 0]
    /\ pc = "init" /\ dir = initrd_root /\ index = 0 /\ listed = << >>
    /\ node = Null /\ sought = None /\ got = << >>
    /\ fault = FALSE

(* initialize_initrd, one file.                                             *)
InitFile ==
    LET i == Len(root_nodes) + 1
    IN  /\ pc = "init" /\ i <= Len(disk)
        /\ file_headers' = [file_headers EXCEPT ![i].offset = @ + LOCATION]
        /\ root_nodes' = Append(root_nodes, File(file_headers[i], i - 1))
        /\ UNCHANGED <<disk, dirent, client, fault>>

InitDone ==
    /\ pc = "init" /\ Len(root_nodes) = Len(disk)
    /\ pc' = "idle"
    /\ UNCHANGED <<disk, file_headers, root_nodes, dirent, dir, index, listed, node, sought, got, fault>>

-----------------------------------------------------------------------------
(* fs.c: f is called if the node has the callback that is tested            *)

Calls(nd, f) == fault' = (fault \/ f \notin nd.callbacks)

(* readdir_fs and finddir_fs ask this of a node before they call its readdir*)
(* or its finddir, and return a null pointer if it is not so.               *)
IsDirectory(nd) == nd.flags = "directory" /\ "readdir" \in nd.callbacks

(* The client begins to list a node, a directory or not.                    *)
OpenDir(d) ==
    /\ pc = "idle"
    /\ pc' = "list" /\ dir' = d /\ index' = 0 /\ listed' = << >>
    /\ node' = Null /\ sought' = None /\ got' = << >>
    /\ UNCHANGED <<disk, file_headers, root_nodes, dirent, fault>>

(* One entry of it, copied; or its end.                                     *)
readdir_fs ==
    LET entry == IF IsDirectory(dir) THEN initrd_readdir(dir, index) ELSE None
    IN  /\ pc = "list"
        /\ IF IsDirectory(dir) THEN Calls(dir, "readdir") ELSE fault' = fault
        /\ IF entry = None
           THEN pc' = "listed" /\ UNCHANGED <<dirent, index, listed>>
           ELSE /\ dirent' = entry /\ listed' = Append(listed, entry)
                /\ index' = index + 1 /\ pc' = pc
        /\ UNCHANGED <<disk, file_headers, root_nodes, dir, node, sought, got>>

(* An entry that was listed is looked up in a node; the client goes on with *)
(* what is returned.                                                        *)
finddir_fs(d, entry) ==
    /\ pc = "listed"
    /\ IF IsDirectory(d) THEN Calls(d, "finddir") /\ node' \in initrd_finddir(d, entry.name)
                         ELSE fault' = fault /\ node' = Null
    /\ dir' = d /\ sought' = entry /\ got' = << >>
    /\ pc' = "found"
    /\ UNCHANGED <<disk, file_headers, root_nodes, dirent, index, listed>>

Reads(nd) == "read" \in nd.callbacks

(* The next piece of the node, which is a file or a directory.              *)
read_fs(size) ==
    LET piece == initrd_read(node, Len(got), size)
    IN  /\ pc = "found" /\ node # Null /\ Reads(node)
        /\ Calls(node, "read")
        /\ got' = got \o piece
        /\ pc' = IF piece = << >> THEN "eof" ELSE pc
        /\ UNCHANGED <<disk, file_headers, root_nodes, dirent, dir, index, listed, node, sought>>

(* The node has no such callback and 0 is returned.                         *)
read_fs_none ==
    /\ pc = "found" /\ node # Null /\ ~ Reads(node)
    /\ pc' = "none"
    /\ UNCHANGED <<disk, file_headers, root_nodes, dirent, dir, index, listed, node, sought, got, fault>>

(* open_fs tests write and calls open; write_fs and close_fs test their own.*)
Tested == [open |-> "write", write |-> "write", close |-> "close"]

OtherCall(f) ==
    /\ pc = "found" /\ node # Null
    /\ IF Tested[f] \in node.callbacks THEN Calls(node, f) ELSE fault' = fault
    /\ UNCHANGED <<disk, file_headers, root_nodes, dirent, client>>

(* The client is through with it.                                           *)
Again ==
    /\ pc \in {"listed", "found", "eof", "none"}
    /\ pc' = "idle"
    /\ UNCHANGED <<disk, file_headers, root_nodes, dirent, dir, index, listed, node, sought, got, fault>>

Next ==
    \/ InitFile \/ InitDone \/ readdir_fs \/ read_fs_none \/ Again
    \/ \E d \in Nodes : OpenDir(d)
    \/ \E d \in Nodes, k \in 1 .. Len(listed) : finddir_fs(d, listed[k])
    \/ \E s \in Sizes : read_fs(s)
    \/ \E f \in {"open", "write", "close"} : OtherCall(f)

Spec == Init /\ [][Next]_vars

-----------------------------------------------------------------------------
(* Properties *)

(* The types; no index past a directory's end is asked for (a listing ends: *)
(* initrd_readdir), and fs.c calls through no null pointer of a node, though*)
(* open_fs and finddir_fs test another pointer than the one they call.      *)
TypeOK ==
    /\ Len(file_headers) = Len(disk) /\ Len(root_nodes) <= Len(disk)
    /\ index \in 0 .. Len(disk) + 1
    /\ node \in Nodes \cup {Null}
    /\ dirent.ino \in 0 .. Len(disk)
    /\ ~ fault

(* Names strcmp can tell apart: it looks at four bytes, whatever they are.  *)
Tellable ==
    /\ \A i \in 1 .. Len(disk) : Len(disk[i].name) >= 3
    /\ \A i, j \in 1 .. Len(disk) : i # j => FirstFour(disk[i].name) # FirstFour(disk[j].name)
    /\ \A i \in 1 .. Len(disk) : FirstFour(disk[i].name) # FirstFour(Dev)

(* A listing of the root is dev and every file once, in the order of the    *)
(* disk, one of /dev ends at once (initrd_readdir: index - 1 wraps), as one *)
(* of a file does (readdir_fs), and the copies are not touched by the dirent*)
(* being used again.                                                        *)
ListingComplete ==
    pc = "listed" =>
      IF dir # initrd_root THEN listed = << >>
      ELSE listed = <<[name |-> Dev, ino |-> 0]>>
                    \o [i \in 1 .. Len(disk) |-> [name |-> disk[i].name, ino |-> i - 1]]

(* What is listed is found: on a disk whose names can be told apart,        *)
(* looking up a listed name gives the node of that very entry               *)
(* (initrd_finddir, strcmp).                                                *)
ListedIsFound ==
    pc = "found" /\ dir = initrd_root /\ Tellable =>
      /\ node # Null /\ node.name = sought.name /\ node.inode = sought.ino

(* Pieces of any sizes put together are the file: its own bytes, in order,  *)
(* none of another file's, and all of them when read_fs returns 0.          *)
PiecesMakeTheFile ==
    pc \in {"found", "eof"} /\ node.flags = "file" =>
      LET f == disk[node.inode + 1]
      IN  /\ Len(got) <= f.length
          /\ \A i \in 1 .. Len(got) : got[i] = LOCATION + f.offset + i - 1
          /\ pc = "eof" => Len(got) = f.length
=============================================================================
