----------------------------- MODULE FirejailBpf -----------------------------
(***************************************************************************)
(* The seccomp programs that fseccomp writes and fsec-optimize rewrites,   *)
(* as sequences of BPF instructions, and what the kernel makes of them.    *)
(*                                                                         *)
(* A system call is a record with the architecture, the number and the     *)
(* arguments a filter looks at.  An argument that is a set of flags is a   *)
(* set here; an argument that is one of several values is that value.      *)
(* Numbers are those of include/syscall_x86_64.h and syscall_i386.h.       *)
(***************************************************************************)
EXTENDS Integers, Sequences, FiniteSets, SequencesExt, FirejailSyscalls

CONSTANTS syslist,      \* the native table, a function from names to numbers
          syslist32,    \* the table of the 32 bit calls of a 64 bit build
          SYS           \* the names the headers of the native architecture define

ARCH_64 == "x86_64"
ARCH_32 == "i386"
X32_SYSCALL_BIT == 2^30
SYSCALL_ERROR == 2147483647

\* The names errno_find_name knows, as far as a list of the model uses them.
Errnos == {"EPERM", "ENOENT", "ENOSYS", "ENOTSUP"}

-----------------------------------------------------------------------------
(* Instructions, and the macros of include/seccomp.h.                      *)

Ld(field) == [op |-> "ld", k |-> field, jt |-> 0, jf |-> 0]
Jeq(k, jt, jf) == [op |-> "jeq", k |-> k, jt |-> jt, jf |-> jf]
Jge(k, jt, jf) == [op |-> "jge", k |-> k, jt |-> jt, jf |-> jf]
Jset(k, jt, jf) == [op |-> "jset", k |-> k, jt |-> jt, jf |-> jf]
Ja(n) == [op |-> "ja", k |-> n, jt |-> 0, jf |-> 0]
And(k) == [op |-> "and", k |-> k, jt |-> 0, jf |-> 0]
Ret(verdict) == [op |-> "ret", k |-> verdict, jt |-> 0, jf |-> 0]

ValidateArch(arch) == << Ld("arch"), Jeq(arch, 1, 0), Ret("ALLOW") >>
ValidateArchKill(arch, action) == << Ld("arch"), Jeq(arch, 1, 0), Ret(action) >>
HANDLE_X32(action) == << Jge(X32_SYSCALL_BIT, 1, 0), Jge(0, 1, 0), Ret(action) >>
OnlyCall(nr) == << Jeq(nr, 1, 0), Ret("ALLOW") >>
BLACKLIST(nr, action) == << Jeq(nr, 0, 1), Ret(action) >>
WHITELIST(nr) == << Jeq(nr, 0, 1), Ret("ALLOW") >>

\* External: the kernel runs a program on a system call.  Every jump is
\* forward; a program that runs off its end is refused when it is installed.
RECURSIVE Step(_, _, _, _)
Step(prog, call, pc, acc) ==
  LET i == prog[pc] IN
    CASE i.op = "ret" -> i.k
      [] i.op = "ld" -> Step(prog, call, pc + 1, call[i.k])
      [] i.op = "and" -> Step(prog, call, pc + 1, acc \cap i.k)
      [] i.op = "ja" -> Step(prog, call, pc + 1 + i.k, acc)
      [] i.op = "jeq" -> Step(prog, call, pc + 1 + (IF acc = i.k THEN i.jt ELSE i.jf), acc)
      [] i.op = "jge" -> Step(prog, call, pc + 1 + (IF acc >= i.k THEN i.jt ELSE i.jf), acc)
      [] i.op = "jset" -> Step(prog, call, pc + 1 + (IF acc \cap i.k # {} THEN i.jt ELSE i.jf), acc)

Bpf(prog, call) == Step(prog, call, 1, 0)

\* External: every installed program runs; the strictest verdict counts, and
\* of two error numbers the one of the program installed last.
Verdict(progs, call) ==
  LET vs == [i \in DOMAIN progs |-> Bpf(progs[i], call)]
      has(v) == \E i \in DOMAIN vs : vs[i] = v
      errs == { i \in DOMAIN vs : vs[i] \in Errnos } IN
    CASE has("KILL") -> "KILL"
      [] ~has("KILL") /\ errs # {} -> vs[CHOOSE i \in errs : \A j \in errs : j <= i]
      [] ~has("KILL") /\ errs = {} -> IF has("LOG") THEN "LOG" ELSE "ALLOW"

\* A verdict that lets the call through.
Passes(v) == v \in {"ALLOW", "LOG"}

-----------------------------------------------------------------------------
(* lib/syscall.c: lists of system calls.                                   *)

\* An item of a list: a name or a group, or a number after a dollar sign,
\* with an exclamation mark or not, and with an error name or none.
Item(name) == [name |-> name, nr |-> 0, neg |-> FALSE, err |-> ""]
Except(name) == [Item(name) EXCEPT !.neg = TRUE]
WithErr(name, err) == [Item(name) EXCEPT !.err = err]

Table(native) == IF native THEN syslist ELSE syslist32

syscall_find_name(name, native) ==
  IF name \in DOMAIN Table(native) THEN Table(native)[name] ELSE SYSCALL_ERROR

syscall_find_nr(nr, native) ==
  LET hits == { x \in DOMAIN Table(native) : Table(native)[x] = nr } IN
    IF hits = {} THEN "unknown" ELSE CHOOSE x \in hits : TRUE

syscall_process_name(it, native) ==
  IF it.err \notin Errnos \cup {"", "kill"} THEN SYSCALL_ERROR
  ELSE IF it.name = "$" THEN it.nr
  ELSE syscall_find_name(it.name, native)

\* The names of a group that the preprocessor kept: those that the headers of
\* the native architecture define.
Compiled(names) ==
  SelectSeq(names, LAMBDA x : x \in Unconditional \cup SYS)

IsGroup(it) == ~it.neg /\ it.name \in DOMAIN sysgroups

\* What syscall_check_list hands to its callback, in order: numbers, negative
\* after an exclamation mark, with their error name.  A name that no table
\* has is skipped; a group is read in place.
RECURSIVE syscall_check_list(_, _)
syscall_check_list(list, native) ==
  LET Calls(it) ==
        IF IsGroup(it)
        THEN syscall_check_list([i \in DOMAIN Compiled(sysgroups[it.name]) |->
                                   Item(Compiled(sysgroups[it.name])[i])], native)
        ELSE LET nr == syscall_process_name(it, native) IN
               IF nr = SYSCALL_ERROR THEN << >>
               ELSE << [nr |-> IF it.neg THEN -nr ELSE nr, err |-> it.err] >> IN
    FlattenSeq([i \in DOMAIN list |-> Calls(list[i])])

\* The callbacks of syscall_check_list.
filter_add(kind, nr, action) ==
  CASE kind = "whitelist" -> IF nr >= 0 THEN WHITELIST(nr) ELSE << >>
    [] kind = "whitelist_for_excluded" -> IF nr < 0 THEN WHITELIST(-nr) ELSE << >>
    [] kind = "blacklist" -> IF nr >= 0 THEN BLACKLIST(nr, action) ELSE << >>
    [] kind = "blacklist_for_excluded" -> IF nr < 0 THEN BLACKLIST(-nr, action) ELSE << >>

\* The instructions that a pass over a list writes: an item with an error name
\* is written by filter_add_errno or filter_add_blacklist_override whatever
\* the pass is for, the others by the callback of the pass.
Emit(calls, kind, action) ==
  FlattenSeq([i \in DOMAIN calls |->
    LET c == calls[i] IN
      CASE c.err \in Errnos -> BLACKLIST(c.nr, c.err)
        [] c.err = "kill" -> IF c.nr >= 0 THEN BLACKLIST(c.nr, "KILL") ELSE << >>
        [] c.err = "" -> filter_add(kind, c.nr, action)])

\* syscalls_in_list: the calls of a list that firejail itself still needs
\* (slist) go to the list of the post-exec filter, the others to the pre-exec
\* one.  Both lists hold names again, the second one without error names.
syscalls_in_list(list, slist, native) ==
  LET calls == syscall_check_list(list, native)
      needed == { LET n == syscall_check_list(slist, native)[i].nr IN IF n < 0 THEN -n ELSE n :
                  i \in DOMAIN syscall_check_list(slist, native) }
      name(c) == syscall_find_nr(c.nr, native)
      post == SelectSeq(calls, LAMBDA c : c.nr \in needed)
      pre == SelectSeq(calls, LAMBDA c : c.nr \notin needed) IN
    [pre |-> [i \in DOMAIN pre |->
                WithErr(name(pre[i]), IF pre[i].err \in Errnos THEN pre[i].err ELSE "")],
     post |-> [i \in DOMAIN post |-> Item(name(post[i]))]]
=============================================================================
