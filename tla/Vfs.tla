-------------------------------- MODULE Vfs --------------------------------
(***************************************************************************)
(* The virtual file system (fs/vfs.c, stat.c, do_fcntl.c), files in memory *)
(* (fs/ramfs.c), the standard output nodes, and the initial RAM disk from  *)
(* tools/mk-initrd.c to fs/initrd.c, as one process's calls see them.  No  *)
(* call here waits.  Opening a FIFO does, by open or by stat, and is       *)
(* module Fifo's.                                                          *)
(*                                                                         *)
(* A file's data is the list of its blocks, as it can be reached from      *)
(* ramfs_nodes; beside it, want is the file as its writers understand it.  *)
(***************************************************************************)
EXTENDS Integers, Sequences, SequencesExt, FiniteSetsExt

CONSTANTS
  Block,      \* bytes of a block, 256 in the code
  Names,      \* file names
  Long,       \* the names that do not fit in node->name
  OpenMax,    \* OPEN_MAX
  FirstFd,    \* 3 in the code
  Disks,      \* initial RAM disks: sequences of files, a name and its bytes;
              \* the Makefile names a file once
  Sizes,      \* sizes of reads and writes
  Offsets,    \* arguments of lseek
  Froms,      \* arguments of F_DUPFD; dup's is 0
  MaxCalls,   \* bound on the calls of a behaviour
  MaxBytes    \* bound on the size of a file

ASSUME VfsAssumption ==
  /\ Block \in Nat /\ Block > 1 /\ Long \subseteq Names
  /\ OpenMax \in Nat /\ FirstFd \in 3 .. OpenMax - 1
  /\ Sizes \subseteq Nat \ {0} /\ Offsets \subseteq Int /\ Froms \subseteq Nat
  /\ MaxCalls \in Nat /\ MaxBytes \in Nat
  /\ \A disk \in Disks :
       /\ disk \in Seq([name : STRING, bytes : Seq(Nat)])
       /\ \A i \in DOMAIN disk :
            /\ disk[i].name \notin {"stdin", "stdout", "stderr"}
            /\ \A j \in DOMAIN disk : disk[i].name = disk[j].name => i = j

VARIABLES
  nodes,     \* the list from vfs_root on: name, type and st_size of each node
  data,      \* data[i]: blocks of the i-th node, <<>> for none
  files,     \* files[fd]: Closed, or node, at and oflag
  calls,     \* number of calls so far
  want,      \* want[i]: what was written to the i-th node
  sane,      \* sane[i]: it was written from its start to its end, in calls
             \* that began at a place where the two divisions agree
  risky,     \* a call before was one of those that may upset the kernel
  mode       \* "run"; "fault": memory that is not there was used; "wild": a
             \* pointer that was never set was called

vfsVars  == <<nodes, data, files, calls, want, sane, risky, mode>>
store   == <<nodes, data, want, sane>>

Fds    == 0 .. OpenMax - 1
Closed == [node |-> 0, at |-> 0, oflag |-> {}]
Zero   == [i \in 0 .. Block - 1 |-> 0]

FreeFds(from) == {fd \in Fds : fd >= from /\ files[fd] = Closed}
(* -1 if there is none. *)
get_free_fd(from) == IF FreeFds(from) = {} THEN -1 ELSE Min(FreeFds(from))

----------------------------------------------------------------------------
(* ramfs.c *)

(* The first block of a transfer, counted from 0, and the place in it. *)
start_node(at) == at \div (Block - 1)
offset(at)     == at % Block

\* The two divisions mean the same byte.
Agree(at) == at >= 0 /\ start_node(at) = at \div Block

Place(at, j) == <<start_node(at) + 1 + ((offset(at) + j) \div Block),
                  (offset(at) + j) % Block>>

\* Mutant: reading goes on in the same block.
ByteAt_Same(blocks, at, j) == blocks[start_node(at) + 1][Place(at, j)[2]]

ByteAt(blocks, at, j) == blocks[Place(at, j)[1]][Place(at, j)[2]]

(* size_t arithmetic: behind the end of the file, everything is readable. *)
Readable(i, at, n) ==
  LET size == nodes[i].size IN IF at > size \/ n < size - at THEN n ELSE size - at

ReadFaults(i, at, n) ==
  \/ at < 0 \/ start_node(at) > Len(data[i])
  \/ Readable(i, at, n) > 0 /\ Place(at, Readable(i, at, n) - 1)[1] > Len(data[i])

read_ramfs(i, at, n) == [j \in 1 .. Readable(i, at, n) |-> ByteAt(data[i], at, j - 1)]

\* Mutant: no block is linked behind the last one.
Written_NoSpare(blocks, at, bytes) ==
  LET s    == start_node(at)
      last == (offset(at) + Len(bytes) - 1) \div Block
  IN  SubSeq(blocks, 1, s)
      \o [b \in 1 .. last + 1 |-> [k \in 0 .. Block - 1 |->
            LET j == (b - 1) * Block + k - offset(at) + 1
            IN  IF j \in DOMAIN bytes THEN bytes[j]
                ELSE IF b = 1 THEN blocks[s + 1][k] ELSE 0]]

(* The blocks up to the first one stay, the bytes go into it and into new   *)
(* ones, and one more is linked behind them.  What followed is gone.       *)
Written(blocks, at, bytes) ==
  LET s    == start_node(at)
      last == (offset(at) + Len(bytes) - 1) \div Block
  IN  SubSeq(blocks, 1, s)
      \o [b \in 1 .. last + 1 |-> [k \in 0 .. Block - 1 |->
            LET j == (b - 1) * Block + k - offset(at) + 1
            IN  IF j \in DOMAIN bytes THEN bytes[j]
                ELSE IF b = 1 THEN blocks[s + 1][k] ELSE 0]]
      \o <<Zero>>

WriteFaults(i, at) == at < 0 \/ start_node(at) + 1 > Len(data[i])

----------------------------------------------------------------------------
(* The initial RAM disk. *)

Contents(disk) == [i \in DOMAIN disk |-> disk[i].bytes]

(* mk-initrd: the number of files, a node per file, the contents; the      *)
(* number and each node take one place here.  After i files, the offset of *)
(* the next one has been added up and their bytes are in the image.        *)
Laid(disk) ==
  LET laid[i \in 0 .. Len(disk)] ==
        IF i = 0 THEN [offset |-> Len(disk) + 1, bytes |-> [k \in 1 .. Len(disk) + 1 |-> 0]]
        ELSE [offset |-> laid[i - 1].offset + Len(disk[i].bytes),
              bytes  |-> laid[i - 1].bytes \o disk[i].bytes]
  IN  laid

mk_initrd(disk) ==
  [offset |-> [i \in DOMAIN disk |-> Laid(disk)[i - 1].offset],
   size   |-> [i \in DOMAIN disk |-> Len(disk[i].bytes)],
   bytes  |-> Laid(disk)[Len(disk)].bytes]

(* init_initrd: what is found at the node's offset, loaded by one write. *)
Loaded(image, i) == SubSeq(image.bytes, image.offset[i] + 1,
                           image.offset[i] + image.size[i])

File(name, type, size) == [name |-> name, type |-> type, size |-> size]

(* init_stdin, init_stdout and init_stderr: the node of descriptor fd is   *)
(* the one at fd + 1.                                                      *)
init_stdio == [fd \in 0 .. 2 |-> [node |-> fd + 1, at |-> 0,
                                 oflag |-> IF fd = 0 THEN {"RD", "WR"} ELSE {"WR"}]]
Standard == <<File("stdin", "std", 0), File("stdout", "std", 0), File("stderr", "std", 0)>>
NoData   == << <<>>, <<>>, <<>> >>

(* The kernel's strncpy copies at most 63 characters and no terminator: a  *)
(* long name is cut, and a short one is followed by what the block held, a *)
(* zero or not.  "cut" is a name that is not found again.                  *)
Stored(name) == IF name \in Long THEN {"cut"} ELSE {name, "cut"}

(* What open_vfs and write_vfs can leave of a file of the disk: all of it  *)
(* and a block behind it; a node without a first block, and a write to the *)
(* descriptor -1; the bytes up to the block there was no memory for.  A    *)
(* file there was not even a node for is one the disk does not have.       *)
Loads(bytes) ==
  {[whole |-> TRUE, size |-> Len(bytes),
    blocks |-> IF bytes = <<>> THEN <<Zero>> ELSE Written(<<Zero>>, 0, bytes)],
   [whole |-> FALSE, size |-> 0, blocks |-> <<>>]}
  \cup {[whole |-> FALSE, size |-> m,
         blocks |-> Front(Written(<<Zero>>, 0, SubSeq(bytes, 1, m)))] :
           m \in {k \in 1 .. Len(bytes) : k = Len(bytes) \/ k % Block = 0}}

(* init_initrd, a file: its name is stored like that of any other. *)
Boots(file, bytes) ==
  {[name |-> s, load |-> l] : s \in Stored(file.name), l \in Loads(bytes)}

(* The standard nodes, then init_initrd. *)
VfsInit ==
  \E disk \in Disks :
    LET image   == mk_initrd(disk)
        Some(i) == Boots(disk[i], Loaded(image, i))
    IN  \E boot \in [DOMAIN disk -> UNION {Some(i) : i \in DOMAIN disk}] :
          /\ \A i \in DOMAIN disk : boot[i] \in Some(i)
          /\ nodes = Standard
                     \o [i \in DOMAIN disk |-> File(boot[i].name, "reg", boot[i].load.size)]
          /\ data = NoData \o [i \in DOMAIN disk |-> boot[i].load.blocks]
          /\ want = NoData \o Contents(disk)
          /\ sane = <<TRUE, TRUE, TRUE>> \o [i \in DOMAIN disk |-> boot[i].load.whole]
          /\ risky = (\E i \in DOMAIN disk : ~boot[i].load.whole)
          /\ files = [fd \in Fds |-> IF fd \in 0 .. 2 THEN init_stdio[fd] ELSE Closed]
          /\ calls = 0 /\ mode = "run"

----------------------------------------------------------------------------
(* vfs.c *)

Runs == mode = "run" /\ calls < MaxCalls /\ calls' = calls + 1

\* Mutant: the list is searched from its end.
Lookup_Last(name) ==
  LET at == {i \in DOMAIN nodes : nodes[i].name = name}
  IN  IF at = {} THEN 0 ELSE Max(at)

(* The first node of that name, 0 if there is none. *)
Lookup(name) ==
  LET at == {i \in DOMAIN nodes : nodes[i].name = name}
  IN  IF at = {} THEN 0 ELSE Min(at)

Add(name, type, blocks) ==
  /\ \E s \in Stored(name) : nodes' = Append(nodes, File(s, type, 0))
  /\ data' = Append(data, blocks)
  /\ want' = Append(want, <<>>)
  /\ sane' = Append(sane, blocks # <<>>)

(* The node is in the list before anything of it can fail: a type that is  *)
(* not known ("raw": its pointers are never set), no memory for the first  *)
(* block, no descriptor.                                                   *)
creat_vfs(name, type, oflag) ==
  LET fd == get_free_fd(FirstFd)
  IN  \/ UNCHANGED <<store, files, risky>>                \* no memory for the node
      \/ /\ type = "raw" /\ Add(name, type, <<>>)
         /\ risky' = TRUE /\ UNCHANGED files
      \/ /\ type # "raw" /\ Add(name, type, <<>>)
         /\ risky' = TRUE /\ UNCHANGED files
      \/ /\ type # "raw" /\ Add(name, type, <<Zero>>)
         /\ files' = IF fd = -1 THEN files
                     ELSE [files EXCEPT ![fd] = [node |-> Len(nodes) + 1, at |-> 0,
                                                 oflag |-> oflag]]
         /\ UNCHANGED risky

creat(name, type) ==
  Runs /\ creat_vfs(name, type, {"WR"}) /\ UNCHANGED mode

(* node->open of a standard node: its own descriptor if that is free. *)
OpenFd(i) == IF nodes[i].type = "std" /\ files[i - 1] = Closed THEN i - 1
             ELSE get_free_fd(FirstFd)

open_vfs(name, oflag, type) ==
  LET i == Lookup(name)
  IN  /\ Runs
      /\ \/ /\ i = 0 /\ "CREAT" \in oflag
            /\ creat_vfs(name, type, oflag) /\ UNCHANGED mode
         \/ /\ i # 0 /\ ~({"CREAT", "EXCL"} \subseteq oflag)
            /\ nodes[i].type \in {"reg", "std"} /\ OpenFd(i) # -1
            /\ files' = [files EXCEPT ![OpenFd(i)] = [node |-> i, at |-> 0, oflag |-> oflag]]
            /\ UNCHANGED <<store, risky, mode>>
         \/ /\ i # 0 /\ ~({"CREAT", "EXCL"} \subseteq oflag)
            /\ nodes[i].type = "raw"
            /\ mode' = "wild"
            /\ UNCHANGED <<store, files, risky>>

close_vfs(fd) ==
  /\ Runs /\ files[fd] # Closed
  /\ files' = [files EXCEPT ![fd] = Closed]
  /\ UNCHANGED <<store, risky, mode>>

IsReg(fd) == files[fd] # Closed /\ nodes[files[fd].node].type = "reg"

read_vfs(fd, n) ==
  LET i  == files[fd].node
      at == files[fd].at
  IN  /\ Runs /\ IsReg(fd) /\ "RD" \in files[fd].oflag
      /\ \/ /\ ReadFaults(i, at, n) /\ mode' = "fault" /\ UNCHANGED files
         \/ /\ ~ReadFaults(i, at, n)
            /\ files' = [files EXCEPT ![fd].at = at + Len(read_ramfs(i, at, n))]
            /\ UNCHANGED mode
      /\ risky' = (risky \/ ~Agree(at))
      /\ UNCHANGED store

\* The bytes of a call, different from those of every other.
Bytes(n) == [j \in 1 .. n |-> 10 * calls + j]

(* m of the n bytes are written: fewer if a block is not to be had.  full: *)
(* there was no memory for the block to be linked behind them.            *)
write_ramfs(fd, n, m, full) ==
  LET i  == files[fd].node
      at == files[fd].at
      new == Written(data[i], at, SubSeq(Bytes(n), 1, m))
  IN  /\ data' = [data EXCEPT ![i] = IF full THEN Front(new) ELSE new]
      /\ nodes' = [nodes EXCEPT ![i].size = @ + m]
      /\ files' = [files EXCEPT ![fd].at = at + m]
      /\ sane' = [sane EXCEPT ![i] = @ /\ Agree(at) /\ at = nodes[i].size /\ m = n]
      /\ want' = IF sane'[i] THEN [want EXCEPT ![i] = @ \o Bytes(n)] ELSE want
      /\ risky' = (risky \/ ~Agree(at) \/ at # nodes[i].size \/ full)
      /\ UNCHANGED mode

write_vfs(fd, n) ==
  LET i  == files[fd].node
      at == files[fd].at
  IN  /\ Runs /\ IsReg(fd) /\ "WR" \in files[fd].oflag
      /\ nodes[i].size + n <= MaxBytes
      /\ \/ /\ WriteFaults(i, at) /\ mode' = "fault"
            /\ risky' = (risky \/ ~Agree(at) \/ at # nodes[i].size)
            /\ UNCHANGED <<store, files>>
         \/ /\ ~WriteFaults(i, at)
            /\ \E m \in 1 .. n, full \in BOOLEAN :
                 /\ m = n \/ (full /\ (offset(at) + m) % Block = 0)
                 /\ write_ramfs(fd, n, m, full)

(* SEEK_SET, SEEK_CUR, SEEK_END.  A FIFO cannot be moved in. *)
lseek_vfs(fd, off, whence) ==
  LET f  == files[fd]
      to == CASE whence = "SET" -> off
              [] whence = "CUR" -> f.at + off
              [] whence = "END" -> nodes[f.node].size + off
  IN  /\ Runs /\ f # Closed /\ nodes[f.node].type # "fifo"
      /\ files' = [files EXCEPT ![fd].at = to]
      /\ risky' = (risky \/ to \notin 0 .. nodes[f.node].size)
      /\ UNCHANGED <<store, mode>>

----------------------------------------------------------------------------
(* do_fcntl.c, unistd.c, stat.c *)

Dup(fd) == [files[fd] EXCEPT !.oflag = @ \ {"CLOEXEC"}]

(* F_DUPFD; dup is that from 0 on. *)
fcntl_dup(fd, from) ==
  /\ Runs /\ files[fd] # Closed /\ get_free_fd(from) # -1
  /\ files' = [files EXCEPT ![get_free_fd(from)] = Dup(fd)]
  /\ UNCHANGED <<store, risky, mode>>

(* F_SETFD and F_SETFL *)
fcntl_set(fd, mask, flags) ==
  /\ Runs /\ files[fd] # Closed
  /\ files' = [files EXCEPT ![fd].oflag = (@ \ mask) \cup (flags \cap mask)]
  /\ UNCHANGED <<store, risky, mode>>

(* close(fd2), whatever fd is; then the lowest free descriptor from fd2 on. *)
dup2(fd, fd2) ==
  LET left == [files EXCEPT ![fd2] = Closed]
  IN  /\ Runs
      /\ files' = IF left[fd] = Closed THEN left
                  ELSE [left EXCEPT ![fd2] = Dup(fd)]
      /\ UNCHANGED <<store, risky, mode>>

(* Nobody looks whether the descriptor is open. *)
fstat(fd) ==
  /\ Runs /\ mode' = IF files[fd] = Closed THEN "fault" ELSE mode
  /\ risky' = (risky \/ files[fd] = Closed)
  /\ UNCHANGED <<store, files>>

(* open, fstat, close: nothing changes, unless the node was never set up.  *)
(* On a FIFO the open counts and waits, as any open of module Fifo does.   *)
stat(name) ==
  LET i == Lookup(name)
  IN  /\ Runs
      /\ i # 0 => nodes[i].type # "fifo"
      /\ mode' = IF i # 0 /\ nodes[i].type = "raw" THEN "wild" ELSE mode
      /\ UNCHANGED <<store, files, risky>>

Ended == (mode # "run" \/ calls = MaxCalls) /\ UNCHANGED vfsVars

Oflags == {{"RD"}, {"RD", "WR", "CREAT"}, {"WR", "CREAT", "EXCL", "CLOEXEC"}}

VfsNext ==
  \/ \E name \in Names :
       \/ stat(name)
       \/ \E type \in {"reg", "fifo", "raw"} :
            creat(name, type) \/ \E oflag \in Oflags : open_vfs(name, oflag, type)
  \/ \E fd \in Fds :
       \/ close_vfs(fd) \/ fstat(fd)
       \/ \E n \in Sizes : read_vfs(fd, n) \/ write_vfs(fd, n)
       \/ \E off \in Offsets, w \in {"SET", "CUR", "END"} : lseek_vfs(fd, off, w)
       \/ \E from \in Froms : fcntl_dup(fd, from)
       \/ \E fd2 \in Fds : dup2(fd, fd2)
       \/ fcntl_set(fd, {"CLOEXEC"}, {"CLOEXEC"})
  \/ Ended

VfsSpec == VfsInit /\ [][VfsNext]_vfsVars

----------------------------------------------------------------------------
(* Properties *)

\* What is read is what was written.  For a file written from its start to its
\* end, in any number of calls over any number of blocks, through any of its
\* descriptors, every read from a place where / 0xFF and % 0x100 agree
\* gives the bytes of that place, and not one more.
InPlace ==
  \A i \in DOMAIN nodes : nodes[i].type = "reg" /\ sane[i] =>
    /\ nodes[i].size = Len(want[i])
    /\ \A at \in 0 .. nodes[i].size, n \in Sizes : Agree(at) =>
         /\ ~ReadFaults(i, at, n)
         /\ read_ramfs(i, at, n) = SubSeq(want[i], at + 1, at + Readable(i, at, n))

\* The kernel does not fall over plain use: without a seek out of the file, a
\* call from a place where the divisions differ, a write that is not at the
\* end, a creation of a type creat_vfs does not know (its node stays in the
\* list), a write, a creation or a load of the disk that ran out of memory
\* half way or an fstat of a closed descriptor, no chain of blocks is followed
\* to where there is none and no pointer is called that was never set.
PlainCallsSafe == mode # "run" => risky

\* A name once found names the same file for ever: creations under a name
\* that exists, and those that fail, do not get in front of it.
NamesStable ==
  [][\A name \in Names : Lookup(name) # 0 => Lookup(name)' = Lookup(name)]_vfsVars

=============================================================================
