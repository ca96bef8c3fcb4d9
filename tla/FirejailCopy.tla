---------------------------- MODULE FirejailCopy -----------------------------
(***************************************************************************)
(* fcopy/main.c: the program that copies files and directories into the    *)
(* file system of a sandbox.  nftw calls fs_copydir for one entry of the   *)
(* source after the other, a directory before its content; what the        *)
(* destination already has is kept, and the sizes are added up to a limit. *)
(***************************************************************************)
EXTENDS Integers, Sequences, FiniteSets, FiniteSetsExt

CONSTANTS Source,    \* the entries in the order of nftw: kind, size, up (the index of the directory, 0: the top)
          Singles,   \* single files and links to copy: entries without a directory
          Limits     \* FIREJAIL_FILE_COPY_LIMIT

ASSUME CopyAssumption == \A i \in DOMAIN Source : Source[i].up \in 0 .. (i - 1)

VARIABLES
  cPhase,              \* idle, walk, write, done, failed
  pos,                 \* the entry of the walk
  work,                \* the entries to copy
  dest,                \* each of them at the destination: absent, old, old other, partial, copied
  copy_limit, size_cnt, size_limit_reached,
  lacking              \* history: the entries that could not be read or written

copyVars == <<cPhase, pos, work, dest, copy_limit, size_cnt, size_limit_reached, lacking>>

CopyInit ==
  /\ cPhase = "idle" /\ pos = 1
  /\ work = << >> /\ dest = << >>
  /\ copy_limit = 0 /\ size_cnt = 0 /\ size_limit_reached = FALSE
  /\ lacking = {}

\* What may be there before: something of the same kind, or of another kind; an
\* entry of a directory only if the directory is there.
Found(w) ==
  {d \in [DOMAIN w -> {"absent", "old", "old other"}] :
     \A i \in DOMAIN w : d[i] # "absent" /\ w[i].up # 0 => d[w[i].up] = "old"}

CopyBegin(w) ==
  /\ cPhase = "idle"
  /\ cPhase' = "walk" /\ work' = w
  /\ dest' \in Found(w) /\ copy_limit' \in Limits
  /\ UNCHANGED <<pos, size_cnt, size_limit_reached, lacking>>

Walking == cPhase = "walk" /\ pos <= Len(work)
Entry == work[pos]
IsTree == work = Source
Moved == pos' = pos + 1 /\ cPhase' = "walk"

\* The three ways out of fs_copydir that copy nothing; copy_file and copy_link
\* test for the file themselves.
Skipped ==
  /\ Walking
  /\ size_limit_reached \/ dest[pos] # "absent"
  /\ Moved
  /\ UNCHANGED <<work, dest, copy_limit, size_cnt, size_limit_reached, lacking>>

Vanished ==
  /\ Walking /\ ~size_limit_reached /\ dest[pos] = "absent" /\ Entry.kind # "dir"
  /\ lacking' = lacking \cup {pos}
  /\ Moved
  /\ UNCHANGED <<work, dest, copy_limit, size_cnt, size_limit_reached>>

LimitReached ==
  /\ Walking /\ IsTree /\ ~size_limit_reached /\ dest[pos] = "absent"
  /\ Entry.size + size_cnt > copy_limit
  /\ size_limit_reached' = TRUE
  /\ Moved
  /\ UNCHANGED <<work, dest, copy_limit, size_cnt, lacking>>

\* A single file or link is not counted.
CountEntry(kind) ==
  /\ Walking /\ ~size_limit_reached /\ dest[pos] = "absent" /\ Entry.kind = kind
  /\ IF IsTree THEN Entry.size + size_cnt <= copy_limit /\ size_cnt' = size_cnt + Entry.size
     ELSE UNCHANGED size_cnt

Placeable == Entry.up # 0 => dest[Entry.up] \in {"old", "copied"}

\* copy_file up to the open of the destination, which may fail.
OpenFile ==
  /\ CountEntry("file")
  /\ \/ Placeable /\ dest' = [dest EXCEPT ![pos] = "partial"] /\ cPhase' = "write" /\ UNCHANGED <<pos, lacking>>
     \/ lacking' = lacking \cup {pos} /\ Moved /\ UNCHANGED dest
  /\ UNCHANGED <<work, copy_limit, size_limit_reached>>

\* The rest of copy_file: a copy that fails is removed.
copy_file(ok) ==
  /\ cPhase = "write"
  /\ dest' = [dest EXCEPT ![pos] = IF ok THEN "copied" ELSE "absent"]
  /\ lacking' = IF ok THEN lacking ELSE lacking \cup {pos}
  /\ Moved
  /\ UNCHANGED <<work, copy_limit, size_cnt, size_limit_reached>>

\* A directory that cannot be made ends the program.
mkdir_attr ==
  /\ CountEntry("dir")
  /\ \/ Placeable /\ dest' = [dest EXCEPT ![pos] = "copied"] /\ Moved
     \/ cPhase' = "failed" /\ UNCHANGED <<pos, dest>>
  /\ UNCHANGED <<work, copy_limit, size_limit_reached, lacking>>

\* A link whose target is not there is not copied.
copy_link ==
  /\ CountEntry("link")
  /\ \/ Placeable /\ dest' = [dest EXCEPT ![pos] = "copied"] /\ UNCHANGED lacking
     \/ lacking' = lacking \cup {pos} /\ UNCHANGED dest
  /\ Moved
  /\ UNCHANGED <<work, copy_limit, size_limit_reached>>

WalkEnds ==
  /\ cPhase = "walk" /\ pos > Len(work)
  /\ cPhase' = "done"
  /\ UNCHANGED <<pos, work, dest, copy_limit, size_cnt, size_limit_reached, lacking>>

CopyNext ==
  \/ CopyBegin(Source) \/ \E e \in Singles : CopyBegin(<< e >>)
  \/ Skipped \/ Vanished \/ LimitReached \/ OpenFile \/ mkdir_attr \/ copy_link \/ WalkEnds
  \/ \E ok \in BOOLEAN : copy_file(ok)

CopySpec == CopyInit /\ [][CopyNext]_copyVars

-----------------------------------------------------------------------------

New == {i \in DOMAIN dest : dest[i] \in {"partial", "copied"}}

\* The copy of a directory never takes more than the limit (file-copy-limit of
\* firejail.config; the test of fs_copydir).
CopyBelowLimit == IsTree => FoldSet(LAMBDA i, s : s + work[i].size, 0, New) <= copy_limit

\* When the copy ends, the destination has the entries of the source up to the
\* one that did not fit, but for those that could not be read or written, and no
\* entry after it; each new entry is in a directory (fs_copydir).
CopyIsPrefix ==
  cPhase = "done" =>
    /\ \E cut \in 1 .. (Len(work) + 1) :
         /\ cut <= Len(work) => size_limit_reached
         /\ \A i \in 1 .. (cut - 1) : dest[i] = "absent" => i \in lacking
         /\ \A i \in cut .. Len(work) : i \notin New
    /\ \A i \in New : work[i].up = 0 \/ dest[work[i].up] \in {"old", "copied"}

\* A copy that ended is a whole prefix of the source within the limit, and no
\* half written file is left behind, which the next copy would skip as present.
CopySound ==
  /\ CopyBelowLimit /\ CopyIsPrefix
  /\ \A i \in DOMAIN dest : dest[i] = "partial" => cPhase = "write" /\ i = pos
=============================================================================
