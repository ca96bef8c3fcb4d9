--------------------------- MODULE FirejailMounts ---------------------------
(***************************************************************************)
(* The mount namespace of a sandbox and the helpers of firejail that       *)
(* change it (util.c, mountinfo.c, fs.c).  A namespace is a record         *)
(*                                                                         *)
(*   mnt   the mounts, in the order of /proc/self/mountinfo: a mount hides *)
(*         node "at" of its parent mount "par" behind node "root" of the   *)
(*         file system "fs", with the flags "flags"; a detached mount has  *)
(*         parent 0;                                                       *)
(*   tmp   the nodes of the tmpfs instances;                               *)
(*   ok    no check of the last line of mountinfo has failed so far.       *)
(*                                                                         *)
(* File systems are numbers: Disk, RoDir (RUN_RO_DIR and RUN_RO_FILE, the  *)
(* empty root-owned nodes mounted on blacklisted paths), Made (files that  *)
(* firejail generates under RUN_MNT_DIR), and n >= 1 for tmp[n].  A node   *)
(* is a record [kind, of]: of says whose content it shows (a path of the   *)
(* disk, or a mark), and for a symbolic link where it points.              *)
(***************************************************************************)
EXTENDS Integers, Sequences, SequencesExt, FiniteSets

CONSTANTS
  DiskNodes      \* the disk: a function from paths (tuples of names) to nodes

ASSUME DiskHasRoot == <<>> \in DOMAIN DiskNodes

Disk  == 0
RoDir == -1
Made  == -2

Hidden == <<"hidden">>
Blank  == <<"blank">>
Absent == <<"absent">>

Directory(of) == [kind |-> "dir", of |-> of]
RegularFile(of) == [kind |-> "file", of |-> of]
Symlink(to) == [kind |-> "link", of |-> to]

NoPlace == <<0, <<>>>>

Below(p, q) == IsPrefix(q, p)
StrictlyBelow(p, q) == IsStrictPrefix(q, p)

HostNamespace ==
  [mnt |-> << [par |-> 0, at |-> <<>>, fs |-> Disk, root |-> <<>>, flags |-> {}] >>,
   tmp |-> << >>,
   ok  |-> TRUE]

(***************************************************************************)
(* Path lookup: the kernel walks a path component by component and climbs  *)
(* to the last mount on every node it reaches.                             *)
(***************************************************************************)
NodesOf(ns, fs) ==
  CASE fs = Disk -> DiskNodes
    [] fs = RoDir -> (<<>> :> Directory(Hidden))
    [] fs = Made -> (<<>> :> RegularFile(<<"made">>))
    [] OTHER -> ns.tmp[fs]

NodeAt(ns, place) == NodesOf(ns, ns.mnt[place[1]].fs)[place[2]]

RECURSIVE Climb(_, _)
Climb(ns, place) ==
  LET on == {n \in 1..Len(ns.mnt) : ns.mnt[n].par = place[1] /\ ns.mnt[n].at = place[2]}
  IN  IF on = {} THEN place
      ELSE LET n == CHOOSE m \in on : TRUE IN Climb(ns, <<n, ns.mnt[n].root>>)

Descend(ns, place, name) ==
  LET below == Append(place[2], name)
  IN  IF place # NoPlace /\ below \in DOMAIN NodesOf(ns, ns.mnt[place[1]].fs)
      THEN Climb(ns, <<place[1], below>>)
      ELSE NoPlace

\* openat(fd, relative path) with O_NOFOLLOW: the walk starts at the very node
\* the descriptor holds, whatever has been mounted on top of it since.
RECURSIVE OpenAt(_, _, _)
OpenAt(ns, place, rel) ==
  IF rel = <<>> \/ place = NoPlace THEN place
  ELSE OpenAt(ns, Descend(ns, place, Head(rel)), Tail(rel))

Open(ns, path) == OpenAt(ns, Climb(ns, <<1, <<>>>>), path)

Exists(ns, path) == Open(ns, path) # NoPlace
IsLink(ns, path) == Exists(ns, path) /\ NodeAt(ns, Open(ns, path)).kind = "link"
IsDir(ns, path)  == Exists(ns, path) /\ NodeAt(ns, Open(ns, path)).kind = "dir"

\* realpath(3), for links that point to a path without links; Absent when the
\* path does not resolve.
RECURSIVE Resolve(_, _, _, _)
Resolve(ns, place, path, k) ==
  CASE place = NoPlace -> Absent
    [] place # NoPlace /\ NodeAt(ns, place).kind = "link" ->
         LET real == NodeAt(ns, place).of \o SubSeq(path, k + 1, Len(path))
         IN  IF Exists(ns, real) THEN real ELSE Absent
    [] place # NoPlace /\ NodeAt(ns, place).kind # "link" ->
         IF k = Len(path) THEN path
         ELSE Resolve(ns, Descend(ns, place, path[k + 1]), path, k + 1)

RealPath(ns, path) == Resolve(ns, Climb(ns, <<1, <<>>>>), path, 0)

\* What a process sees at a path: the content shown by the node it reaches.
Seen(ns, path) ==
  LET real == RealPath(ns, path)
  IN  IF real = Absent THEN Absent ELSE NodeAt(ns, Open(ns, real)).of

FlagsAt(ns, path) == ns.mnt[Open(ns, path)[1]].flags

(***************************************************************************)
(* Mount operations.  A sandbox whose check of mountinfo failed has exited *)
(* and mounts nothing more.                                                *)
(***************************************************************************)
Attach(ns, place, fs, root, flags) ==
  [ns EXCEPT !.mnt = Append(@, [par |-> place[1], at |-> place[2], fs |-> fs,
                                root |-> root, flags |-> flags])]

\* The mounts attached, directly or not, strictly below a place.
Submounts(ns, place) ==
  LET under[n \in 1..Len(ns.mnt)] ==
        \/ ns.mnt[n].par = place[1] /\ StrictlyBelow(ns.mnt[n].at, place[2])
        \/ ns.mnt[n].par # 0 /\ under[ns.mnt[n].par]
  IN  SelectSeq([n \in 1..Len(ns.mnt) |-> n], LAMBDA n : under[n])

\* mount(2) with MS_BIND|MS_REC from one open place to another: the source's
\* mount and every mount below it are copied.
bind_mount_by_fd(ns, src, dst) ==
  LET subs == Submounts(ns, src)
      base == Len(ns.mnt) + 1
      copy(n) == IF ns.mnt[n].par = src[1] THEN base
                 ELSE base + (CHOOSE k \in 1..Len(subs) : subs[k] = ns.mnt[n].par)
      from == ns.mnt[src[1]]
  IN  [ns EXCEPT !.mnt = Append(@, [par |-> dst[1], at |-> dst[2], fs |-> from.fs,
                                    root |-> src[2], flags |-> from.flags])
                         \o [k \in 1..Len(subs) |->
                               [ns.mnt[subs[k]] EXCEPT !.par = copy(subs[k])]]]

\* Masks a path with the empty root-owned node, or with a generated file.
bind_mount_path_to_fd(ns, fs, dst) == Attach(ns, dst, fs, <<>>, {})

\* mount(2) of an empty tmpfs.
MountTmpfs(ns, path, flags) ==
  LET place == Open(ns, path)
      new   == [ns EXCEPT !.tmp = Append(@, <<>> :> Directory(Blank))]
  IN  IF ~ns.ok \/ place = NoPlace THEN ns
      ELSE Attach(new, place, Len(new.tmp), <<>>, flags)

\* umount2(path, MNT_DETACH)
Umount(ns, path) ==
  LET place == Open(ns, path)
  IN  IF place = NoPlace \/ place[1] = 1 \/ ns.mnt[place[1]].root # place[2] THEN ns
      ELSE [ns EXCEPT !.mnt[place[1]].par = 0]

\* Creates a node in the tmpfs a path leads to; elsewhere the model's disk
\* does not change.
MakeNode(ns, path, node) ==
  LET up == Open(ns, Front(path))
      fs == ns.mnt[up[1]].fs
  IN  IF ~ns.ok \/ up = NoPlace \/ Exists(ns, path) \/ fs < 1 THEN ns
      ELSE [ns EXCEPT !.tmp[fs] = (Append(up[2], Last(path)) :> node) @@ @]

\* The mount point of a mount, as /proc/self/mountinfo prints it.
MountPoint(ns) ==
  LET dir[n \in 1..Len(ns.mnt)] ==
        IF ns.mnt[n].par = 0 THEN <<>>
        ELSE dir[ns.mnt[n].par]
             \o SubSeq(ns.mnt[n].at, Len(ns.mnt[ns.mnt[n].par].root) + 1, Len(ns.mnt[n].at))
  IN  dir

\* The last line of /proc/self/mountinfo.
get_last_mount(ns) == MountPoint(ns)[Len(ns.mnt)]

\* The directory itself, then every mount point inside it that is listed after
\* the directory's own mount.
build_mount_array(ns, mountid, path) ==
  LET dir == MountPoint(ns)
      inside == SelectSeq([n \in 1..Len(ns.mnt) |-> n],
                          LAMBDA n : n > mountid /\ ns.mnt[n].par # 0
                                     /\ StrictlyBelow(dir[n], path))
  IN  <<path>> \o [k \in 1..Len(inside) |-> dir[inside[k]]]
=============================================================================
